---- MODULE Spec2Model ----
(***************************************************************************)
(* A model of the ERPNext archive system: the Archive Document record and  *)
(* its version rows, the category tree, subcategories, document types,     *)
(* document relationships, categorization rules and the audit trail.       *)
(* Every action is one call of a controller method or of a whitelisted     *)
(* function, executed to completion (requests run one after the other).    *)
(* The host framework runs a record's hooks in the order                   *)
(*   insert: name, validate, before_save, row insert, after_insert         *)
(*   save:   validate, before_save, row update                             *)
(*   delete: on_trash, row delete                                          *)
(* A whitelisted function that catches an exception returns normally, so   *)
(* the rows written before the exception stay in the store.                *)
(***************************************************************************)
EXTENDS Bags, FiniteSets, Integers, Sequences, TLC

\* ---------------------------------------------------------------- bounds
MaxVersions == 4      \* rows in the Archive Document Version table
MaxAudit == 7         \* rows in the Archive Audit Trail table
MaxRelationships == 3 \* rows in the Archive Related Document table
MaxRemovals == 2      \* remove_relationship calls that delete a row
MaxPatternLen == 2    \* characters of a rule's pattern
MaxEntries == 3       \* audit rows while the retention policy is exercised
MaxDay == 2556        \* the last date the clock reaches
MaxWalk == 4          \* records that one walk up the parents loads
MaxTypesLen == 3      \* characters of allowed_file_types
MaxExtLen == 2        \* characters of a file extension

\* ---------------------------------------------------------------- inputs
DocNames == {"d1", "d2"}
DocumentIds == {"ID1", "ID2"}
Files == {"f1", "f2"}                  \* file_url of the File rows that exist
UploadUrls == {"", "f1", "gone"}       \* "" is no file, "gone" has no File row
VersionUrls == {"", "f2", "gone"}
AccessLevels == {"Internal", "Confidential"}
NoLink == ""                           \* an empty link field
CategoryNames == {"A B", "a_b", "C"}
\* the characters of a category name
Chars == [n \in CategoryNames |->
            CASE n = "A B" -> <<"A", " ", "B">>
              [] n = "a_b" -> <<"a", "_", "b">>
              [] n = "C" -> <<"C">>]
NoCode == <<>>                         \* category_code not supplied
CategoryCodes == {NoCode, <<"a", "_", "b">>, <<"X">>}
\* sequences over S of length at most n
RECURSIVE SeqsUpTo(_, _)
SeqsUpTo(S, n) ==
    IF n = 0 THEN {<<>>}
    ELSE SeqsUpTo(S, n - 1)
         \cup {Append(q, c) : q \in SeqsUpTo(S, n - 1), c \in S}
PatternChars == {"a", "(", ")"}
Patterns == SeqsUpTo(PatternChars, MaxPatternLen)   \* <<>> is no pattern
Keywords == {"", "invoice"}
RuleNames == {"r1"}
RuleTypes == {"Keyword", "Pattern", "Document Type", "File Extension"}
\* actions of audit entries: none, two of the retention table, one of the
\* allow-list, one outside both
AuditActions == {"", "Document Accessed", "Version Created",
                 "Document Shared", "Custom"}
DayJumps == {366, 2190}                \* days the clock moves at once
ApplyRuleNames == {"r1", "r2"}
Priorities == {1, 2}
Titles == {"Invoice", "Data"}
\* the characters of a document title or of a keyword
Text == [t \in Titles \cup {"invoice"} |->
            CASE t = "Invoice" -> <<"I", "n", "v", "o", "i", "c", "e">>
              [] t = "Data" -> <<"D", "a", "t", "a">>
              [] t = "invoice" -> <<"i", "n", "v", "o", "i", "c", "e">>]
SubcategoryNames == {"s1"}
TypeNames == {"t1"}
TypeCodes == {"INV"}
\* allowed_file_types and file extensions, as sequences of characters
TypeChars == {"a", "A", ".", ","}
AllowedFileTypes == SeqsUpTo(TypeChars, MaxTypesLen)   \* <<>> is not set
FileExtensions == SeqsUpTo({"a", "A", "."}, MaxExtLen)
MaxFileSizes == {0, 5, -1}             \* 0 is not set

VARIABLES
    docs,          \* Archive Document rows: name -> fields
    versions,      \* Archive Document Version rows, a row's name is its index
    categories,    \* Archive Category rows: name -> fields
    subcategories, \* Archive Subcategory rows: name -> fields
    doctypes,      \* Archive Document Type rows: name -> fields
    relationships, \* Archive Related Document rows, a bag of edges
    rules,         \* Archive Category Rule rows: name -> fields
    audit,         \* Archive Audit Trail rows, a bag of rows
    last,          \* the last call and what it returned
    today,         \* the current date, in days
    requests,      \* the create_new_version requests that are running
    walk           \* the walk up the parent categories that is running

vars == <<docs, versions, categories, subcategories, doctypes,
          relationships, rules, audit, last, today, requests, walk>>

\* what a call returns: status and message are the returned dictionary (or
\* the exception of a controller call), target and value are its arguments
Result(op, status, target, value, message) ==
    [op |-> op, status |-> status, target |-> target, value |-> value,
     message |-> message]

\* ------------------------------------------------------------ audit trail
\* the retention_days table of set_retention_date
retention_days ==
    [a \in {"Document Created", "Document Updated", "Document Deleted",
            "Document Accessed", "Document Downloaded", "Document Shared",
            "Version Created", "Version Restored", "Category Created",
            "Category Updated", "Category Deleted", "Access Granted",
            "Access Revoked", "Encryption Applied", "Decryption Applied",
            "OCR Processed", "Auto Categorized", "Compliance Check",
            "Audit Report Generated", "System Error", "Security Violation"}
        |-> IF a = "Document Accessed" THEN 365 ELSE 2555]

\* every action is kept for seven years
set_retention_date_flat(action, now) == now + 2555

\* set_retention_date: retention_until of a row saved on the day `now`
set_retention_date(action, now) ==
    now + (IF action \in DOMAIN retention_days THEN retention_days[action]
           ELSE 2555)

compliance_actions ==
    {"Document Created", "Document Updated", "Document Deleted",
     "Document Downloaded", "Document Shared", "Access Granted",
     "Access Revoked", "Encryption Applied", "Decryption Applied",
     "Compliance Check", "Security Violation"}

\* the flag of the caller is kept
set_compliance_flag_keep(action, supplied) == supplied

\* set_compliance_flag: compliance_flag of a row, whatever was supplied
set_compliance_flag(action, supplied) == action \in compliance_actions

\* the row that ArchiveAuditTrail.before_save leaves to be written
AuditTrailRow(action, ref, supplied) ==
    [action |-> action, ref |-> ref,
     retention_until |-> set_retention_date(action, today),
     compliance_flag |-> set_compliance_flag(action, supplied)]

\* a row that the module inserts: no compliance_flag is supplied
AuditRow(action, ref) == AuditTrailRow(action, ref, FALSE)

AuditInsert(a, action, ref) == a (+) SetToBag({AuditRow(action, ref)})

AuditCount(a, action) ==
    LET rows == {r \in BagToSet(a) : r.action = action}
        RECURSIVE Sum(_)
        Sum(S) == IF S = {} THEN 0
                  ELSE LET r == CHOOSE r \in S : TRUE
                       IN CopiesIn(r, a) + Sum(S \ {r})
    IN Sum(rows)

\* --------------------------------------------------- Archive Document Version
VersionIdx(vs, parent) == {i \in 1..Len(vs) : vs[i].parent = parent}

\* create_new_version's query: the largest version_number of the parent
last_version(vs, parent) ==
    LET nums == {vs[i].version_number : i \in VersionIdx(vs, parent)}
    IN IF nums = {} THEN 0 ELSE CHOOSE n \in nums : \A m \in nums : m <= n

\* the query without its filter on parent
next_version_number_any_parent(vs, parent) ==
    LET nums == {vs[i].version_number : i \in 1..Len(vs)}
    IN IF nums = {} THEN 1
       ELSE (CHOOSE n \in nums : \A m \in nums : m <= n) + 1

next_version_number(vs, parent) ==
    IF VersionIdx(vs, parent) = {} THEN 1 ELSE last_version(vs, parent) + 1

\* the query for an existing row is left out
validate_version_number_skip(vs, parent, number) == FALSE

\* TRUE when validate_version_number throws for a new row (parent, number)
validate_version_number_throws(vs, parent, number) ==
    \E i \in VersionIdx(vs, parent) : vs[i].version_number = number

\* the flag of the siblings is left alone
update_other_versions_skip(vs, parent, name) == vs

update_other_versions(vs, parent, name) ==
    [i \in 1..Len(vs) |->
        IF vs[i].parent = parent /\ i # name
        THEN [vs[i] EXCEPT !.is_current_version = 0]
        ELSE vs[i]]

\* ArchiveDocumentVersion.before_save for the row that gets the name `name`
VersionBeforeSave(vs, row, name) ==
    IF row.is_current_version = 1
    THEN update_other_versions(vs, row.parent, name)
    ELSE vs

VersionRow(parent, number, file_url, current) ==
    [parent |-> parent, version_number |-> number,
     is_current_version |-> current, file_url |-> file_url]

\* version_doc.insert(): validate, before_save, row insert, after_insert.
\* Yields the tables after the call and whether the insert threw.
VersionInsert(vs, a, row) ==
    IF validate_version_number_throws(vs, row.parent, row.version_number)
    THEN [threw |-> "Version number already exists", versions |-> vs,
          audit |-> a]
    ELSE [threw |-> "",
          versions |-> Append(VersionBeforeSave(vs, row, Len(vs) + 1), row),
          audit |-> AuditInsert(a, "Version Version Created", row.parent)]

\* ------------------------------------------------------------ Archive Document
DocRow(id, file, level, enc, cat, sub, typ) ==
    [document_id |-> id, file_attachment |-> file, access_level |-> level,
     encryption_status |-> enc, category |-> cat, subcategory |-> sub,
     document_type |-> typ]

\* the uniqueness check left out
validate_document_id_skip(ds, name, id) == FALSE

\* TRUE when validate_document_id throws for the row named `name`
validate_document_id_throws(ds, name, id) ==
    \E n \in DOMAIN ds : n # name /\ ds[n].document_id = id

\* TRUE when validate_file_attachment throws: no File row has this file_url
validate_file_attachment_throws(file) ==
    file # "" /\ file \notin Files

encrypt_file(path) == path \o ".encrypted"

\* ArchiveDocument.encrypt_document: ok is whether encrypt_file succeeds
encrypt_document(d, ok) ==
    IF d.file_attachment = "" THEN d
    ELSE IF d.file_attachment \in Files /\ ok
         THEN [d EXCEPT !.file_attachment = encrypt_file(@),
                        !.encryption_status = "Encrypted"]
         ELSE [d EXCEPT !.encryption_status = "Encryption Failed"]

\* decrypt_file: str.replace('.encrypted', '_decrypted') on the paths in use
decrypt_file(path) ==
    CASE path = "f1.encrypted" -> "f1_decrypted"
      [] path = "f2.encrypted" -> "f2_decrypted"
      [] OTHER -> path

\* ArchiveDocument.decrypt_document: ok is whether decrypt_file succeeds; an
\* exception (no File row, or decrypt_file raising) is logged and the fields
\* stay as they are
decrypt_document(d, ok) ==
    IF d.file_attachment # "" /\ d.encryption_status = "Encrypted"
       /\ d.file_attachment \in Files /\ ok
    THEN [d EXCEPT !.file_attachment = decrypt_file(@),
                   !.encryption_status = "Not Encrypted"]
    ELSE d

\* the record part of ArchiveDocument.before_save
DocBeforeSave(d, ok) ==
    IF d.encryption_status # "Encrypted"
       /\ d.access_level \in {"Confidential", "Restricted"}
    THEN encrypt_document(d, ok)
    ELSE d

\* ArchiveDocument.validate: the message of the exception, "" if none
DocValidate(ds, name, d) ==
    IF validate_document_id_throws(ds, name, d.document_id)
    THEN "Document ID already exists"
    ELSE IF validate_file_attachment_throws(d.file_attachment)
    THEN "File not found"
    ELSE ""

\* doc.save() of the existing row `name` with the in-memory fields d
DocSave(ds, a, name, d, ok) ==
    IF DocValidate(ds, name, d) # ""
    THEN [threw |-> DocValidate(ds, name, d), docs |-> ds, audit |-> a]
    ELSE [threw |-> "",
          docs |-> [ds EXCEPT ![name] = DocBeforeSave(d, ok)],
          audit |-> AuditInsert(a, "Document Updated", name)]

\* doc.insert() of a new Archive Document named `name`, as upload_document
\* calls it: validate, before_save, row insert, after_insert (audit row and
\* create_initial_version).  An exception in after_insert is caught by the
\* caller's catch-all, so the document row and the audit rows stay.
DocInsert(ds, vs, a, name, d, ok) ==
    IF DocValidate(ds, name, d) # ""
    THEN [threw |-> DocValidate(ds, name, d), docs |-> ds, versions |-> vs,
          audit |-> a]
    ELSE LET d1 == DocBeforeSave(d, ok)
             a1 == AuditInsert(AuditInsert(a, "Document Updated", name),
                               "Document Created", name)
             ds1 == [n \in DOMAIN ds \cup {name} |->
                        IF n = name THEN d1 ELSE ds[n]]
             ins == VersionInsert(vs, a1,
                        VersionRow(name, 1, d1.file_attachment, 0))
         IN [threw |-> ins.threw, docs |-> ds1,
             versions |-> ins.versions, audit |-> ins.audit]

\* create_new_version(parent_document, file_url): the tables after the call
\* and the dictionary it returns
CreateNewVersion(ds, vs, a, parent, file_url, ok) ==
    LET num == next_version_number(vs, parent)
        same == [status |-> "error", version_number |-> 0, message |-> "",
                 docs |-> ds, versions |-> vs, audit |-> a]
    IN IF file_url # "" /\ file_url \notin Files
       THEN [same EXCEPT !.message = "File not found"]
       ELSE LET ins == VersionInsert(vs, a, VersionRow(parent, num, file_url, 1))
            IN IF ins.threw # "" THEN [same EXCEPT !.message = ins.threw]
               ELSE IF parent \notin DOMAIN ds
               THEN [same EXCEPT !.versions = ins.versions,
                                 !.audit = ins.audit,
                                 !.message = "Archive Document not found"]
               ELSE LET sv == DocSave(ds, ins.audit, parent,
                                 [ds[parent] EXCEPT !.file_attachment = file_url],
                                 ok)
                    IN IF sv.threw # ""
                       THEN [same EXCEPT !.versions = ins.versions,
                                         !.audit = ins.audit,
                                         !.message = sv.threw]
                       ELSE [status |-> "success", version_number |-> num,
                             message |-> "",
                             docs |-> sv.docs, versions |-> ins.versions,
                             audit |-> sv.audit]

\* ------------------------------------------------------------ Archive Category
CategoryRow(code, parent) ==
    [parent_category |-> parent, category_code |-> code]

\* str.lower() on the characters in use
Lower(c) ==
    CASE c = "A" -> "a" [] c = "B" -> "b" [] c = "C" -> "c" [] c = "X" -> "x"
      [] c = "D" -> "d" [] c = "I" -> "i"
      [] OTHER -> c

\* set_default_values: category_name.lower().replace(" ", "_")
default_category_code(name) ==
    [i \in 1..Len(Chars[name]) |->
        IF Chars[name][i] = " " THEN "_" ELSE Lower(Chars[name][i])]

\* TRUE when validate_category_code throws: the check is made only for a
\* code that was supplied
validate_category_code_throws(cs, name, code) ==
    /\ code # NoCode
    /\ \E n \in DOMAIN cs : n # name /\ cs[n].category_code = code

\* the walk finds nothing
is_child_of_never(cs, pc, parent_name) == "False"

\* is_child_of(parent_name) of a record whose parent_category is pc:
\* "True", "False", or "DoesNotExist" when get_doc finds no row
RECURSIVE is_child_of(_, _, _)
is_child_of(cs, pc, parent_name) ==
    IF pc = NoLink THEN "False"
    ELSE IF pc = parent_name THEN "True"
    ELSE IF pc \notin DOMAIN cs THEN "DoesNotExist"
    ELSE is_child_of(cs, cs[pc].parent_category, parent_name)

\* validate_parent_category of the record `name` whose parent_category is
\* `parent`: the message of the exception, "" if none
validate_parent_category(cs, name, parent) ==
    IF parent = NoLink THEN ""
    ELSE IF parent = name THEN "Category cannot be its own parent"
    ELSE IF parent \notin DOMAIN cs THEN "Archive Category not found"
    ELSE LET r == is_child_of(cs, parent, parent)
         IN IF r = "True"
            THEN "Circular reference detected in category hierarchy"
            ELSE IF r = "DoesNotExist" THEN "Archive Category not found"
            ELSE ""

\* ArchiveCategory.validate up to set_default_values
CategoryValidate(cs, name, code, parent) ==
    IF validate_category_code_throws(cs, name, code)
    THEN "Category Code already exists"
    ELSE validate_parent_category(cs, name, parent)

\* the row that validate leaves to be written
CategoryAfterValidate(name, code, parent) ==
    CategoryRow(IF code = NoCode THEN default_category_code(name) ELSE code,
                parent)

\* the document check left out
validate_category_deletion_children_only(cs, ds, name) ==
    IF \E n \in DOMAIN cs : cs[n].parent_category = name
    THEN "Cannot delete category with child categories"
    ELSE ""

\* validate_category_deletion: the message of the exception, "" if none
validate_category_deletion(cs, ds, name) ==
    IF \E n \in DOMAIN cs : cs[n].parent_category = name
    THEN "Cannot delete category with child categories"
    ELSE IF \E d \in DOMAIN ds : ds[d].category = name
    THEN "Cannot delete category with documents"
    ELSE ""

\* ------------------------------------- Archive Subcategory, Archive Document Type
\* the check left out
validate_subcategory_deletion_skip(ds, name) == FALSE

\* TRUE when validate_subcategory_deletion throws
validate_subcategory_deletion_throws(ds, name) ==
    \E d \in DOMAIN ds : ds[d].subcategory = name

\* TRUE when validate_document_type_deletion throws
validate_document_type_deletion_throws(ds, name) ==
    \E d \in DOMAIN ds : ds[d].document_type = name

\* TRUE when validate_document_type_code throws
validate_document_type_code_throws(ts, name, code) ==
    \E n \in DOMAIN ts : n # name /\ ts[n].document_type_code = code

\* --------------------------------------------------- Archive Related Document
\* the table without the entry for "Original Of"
reverse_relationships_incomplete ==
    [t \in {"Supersedes", "Superseded By", "References", "Referenced By",
            "Part Of", "Contains", "Version Of"} |->
        CASE t = "Supersedes" -> "Superseded By"
          [] t = "Superseded By" -> "Supersedes"
          [] t = "References" -> "Referenced By"
          [] t = "Referenced By" -> "References"
          [] t = "Part Of" -> "Contains"
          [] t = "Contains" -> "Part Of"
          [] t = "Version Of" -> "Original Of"]

reverse_relationships ==
    [t \in {"Supersedes", "Superseded By", "References", "Referenced By",
            "Part Of", "Contains", "Version Of", "Original Of"} |->
        CASE t = "Supersedes" -> "Superseded By"
          [] t = "Superseded By" -> "Supersedes"
          [] t = "References" -> "Referenced By"
          [] t = "Referenced By" -> "References"
          [] t = "Part Of" -> "Contains"
          [] t = "Contains" -> "Part Of"
          [] t = "Version Of" -> "Original Of"
          [] t = "Original Of" -> "Version Of"]

\* the types a caller may pass: those of the table and one outside it
RelationshipTypes ==
    {"Supersedes", "Superseded By", "References", "Referenced By",
     "Part Of", "Contains", "Version Of", "Original Of", "Related To"}

Edge(parent, related, type) ==
    [parent |-> parent, related_document_id |-> related,
     relationship_type |-> type]

\* validate_related_document: the message of the exception, "" if none
validate_related_document(rs, ds, e) ==
    IF e.related_document_id = NoLink THEN ""
    ELSE IF e.related_document_id \notin DOMAIN ds
    THEN "Related document does not exist"
    ELSE IF e.parent # NoLink /\ e.related_document_id = e.parent
    THEN "Document cannot be related to itself"
    ELSE IF BagIn(e, rs) THEN "This relationship already exists"
    ELSE ""

\* relationship_doc.insert(): validate, row insert, after_insert
RelationshipInsert(rs, ds, a, e) ==
    IF validate_related_document(rs, ds, e) # ""
    THEN [threw |-> validate_related_document(rs, ds, e),
          relationships |-> rs, audit |-> a]
    ELSE [threw |-> "", relationships |-> rs (+) SetToBag({e}),
          audit |-> AuditInsert(a, "Relationship Relationship Created",
                                e.parent)]

\* add_relationship(parent_document, related_document_id, relationship_type)
AddRelationship(rs, ds, a, parent, related, type) ==
    LET same == [status |-> "error", message |-> "", relationships |-> rs,
                 audit |-> a]
    IN IF parent \notin DOMAIN ds
       THEN [same EXCEPT !.message = "Parent document not found"]
       ELSE IF related \notin DOMAIN ds
       THEN [same EXCEPT !.message = "Related document not found"]
       ELSE IF BagIn(Edge(parent, related, type), rs)
       THEN [same EXCEPT !.message = "Relationship already exists"]
       ELSE LET fwd == RelationshipInsert(rs, ds, a,
                                          Edge(parent, related, type))
            IN IF fwd.threw # "" THEN [same EXCEPT !.message = fwd.threw]
               ELSE IF type \notin DOMAIN reverse_relationships
               THEN [status |-> "success", message |-> "",
                     relationships |-> fwd.relationships,
                     audit |-> fwd.audit]
               ELSE LET rev == RelationshipInsert(fwd.relationships, ds,
                                  fwd.audit,
                                  Edge(related, parent,
                                       reverse_relationships[type]))
                    IN [status |-> IF rev.threw # "" THEN "error"
                                   ELSE "success",
                        message |-> rev.threw,
                        relationships |-> rev.relationships,
                        audit |-> rev.audit]

\* the reverse row is left behind
RemoveRelationshipForwardOnly(rs, a, e) ==
    [relationships |-> rs (-) SetToBag({e}),
     audit |-> AuditInsert(a, "Relationship Relationship Deleted", e.parent)]

\* remove_relationship of the row e: the row is deleted, then the first
\* reverse row found, each with the audit row of on_trash
RemoveRelationship(rs, a, e) ==
    LET rs1 == rs (-) SetToBag({e})
        a1 == AuditInsert(a, "Relationship Relationship Deleted", e.parent)
    IN IF e.relationship_type \notin DOMAIN reverse_relationships
       THEN [relationships |-> rs1, audit |-> a1]
       ELSE LET r == Edge(e.related_document_id, e.parent,
                          reverse_relationships[e.relationship_type])
            IN IF BagIn(r, rs1)
               THEN [relationships |-> rs1 (-) SetToBag({r}),
                     audit |-> AuditInsert(a1,
                                  "Relationship Relationship Deleted",
                                  r.parent)]
               ELSE [relationships |-> rs1, audit |-> a1]

\* ------------------------------------------------------ Archive Category Rule
\* re.compile on patterns of letters and parentheses: TRUE when the
\* parentheses from position i on, read at depth d, are balanced
RECURSIVE re_compile(_, _, _)
re_compile(pattern, i, d) ==
    IF i > Len(pattern) THEN d = 0
    ELSE IF pattern[i] = "(" THEN re_compile(pattern, i + 1, d + 1)
    ELSE IF pattern[i] = ")" THEN d > 0 /\ re_compile(pattern, i + 1, d - 1)
    ELSE re_compile(pattern, i + 1, d)

RuleRow(type, keyword, pattern, document_type) ==
    [document_type |-> document_type, pattern |-> pattern,
     keyword |-> keyword, rule_type |-> type, priority |-> 1,
     is_active |-> TRUE]

\* the pattern is not compiled
validate_rule_configuration_no_regex(r) ==
    IF r.rule_type = "Keyword" /\ r.keyword = ""
    THEN "Keyword is required for Keyword rule type"
    ELSE IF r.rule_type = "Pattern" /\ r.pattern = <<>>
    THEN "Pattern is required for Pattern rule type"
    ELSE IF r.rule_type = "Document Type" /\ r.document_type = NoLink
    THEN "Document Type is required for Document Type rule"
    ELSE ""

\* validate_rule_configuration: the message of the exception, "" if none
validate_rule_configuration(r) ==
    IF r.rule_type = "Keyword" /\ r.keyword = ""
    THEN "Keyword is required for Keyword rule type"
    ELSE IF r.rule_type = "Pattern" /\ r.pattern = <<>>
    THEN "Pattern is required for Pattern rule type"
    ELSE IF r.rule_type = "Document Type" /\ r.document_type = NoLink
    THEN "Document Type is required for Document Type rule"
    ELSE IF r.rule_type = "Pattern" /\ r.pattern # <<>>
            /\ ~ re_compile(r.pattern, 1, 0)
    THEN "Invalid regex pattern"
    ELSE ""

\* str.lower() of a text
LowerText(t) == [i \in 1..Len(t) |-> Lower(t[i])]

\* needle in hay, for two texts
Contains(hay, needle) ==
    \E k \in 0..(Len(hay) - Len(needle)) :
        \A i \in 1..Len(needle) : hay[k + i] = needle[i]

\* the literal that a pattern of letters and parentheses stands for
Literal(pattern) == SelectSeq(pattern, LAMBDA c : c \notin {"(", ")"})

\* bool(re.search(pattern, text, re.IGNORECASE)); re.error gives False
re_search(pattern, text) ==
    /\ re_compile(pattern, 1, 0)
    /\ Contains(LowerText(text), LowerText(Literal(pattern)))

\* content of apply_rules_to_document for a document without description
\* and without OCR text: f"{title} {description or ''} {ocr_text or ''}"
DocumentContent(d) == Text[d.document_title] \o <<" ">> \o <<" ">>

\* a rule row with every field a form can set; a row without the field
\* parent_category is a row of a schema that has no such field
CategoryRuleRow(type, keyword, pattern, dt, priority, active, parent) ==
    [document_type |-> dt, parent_category |-> parent,
     pattern |-> pattern, keyword |-> keyword, rule_type |-> type,
     priority |-> priority, is_active |-> active]

\* ArchiveCategoryRule.apply_rule(document_content, document_title,
\* document_type)
apply_rule(r, document_content, document_title, document_type) ==
    IF ~ r.is_active THEN FALSE
    ELSE LET content_to_check ==
                 LowerText(document_title \o <<" ">> \o document_content)
         IN CASE r.rule_type = "Keyword" ->
                     Contains(content_to_check, LowerText(Text[r.keyword]))
              [] r.rule_type = "Pattern" ->
                     re_search(r.pattern, content_to_check)
              [] r.rule_type = "Document Type" ->
                     document_type = r.document_type
              [] OTHER -> FALSE

\* the rule applied to the stored document d
RuleMatches(r, d) ==
    apply_rule(r, DocumentContent(d), Text[d.document_title], d.document_type)

\* the category a matching rule gives to the document d
RuleCategory(r, d) ==
    IF "parent_category" \in DOMAIN r THEN r.parent_category ELSE d.category

\* the results get_all may give for the active rules, order_by priority asc:
\* rules of equal priority come in any order
RuleOrders(rs) ==
    LET active == {n \in DOMAIN rs : rs[n].is_active}
        k == Cardinality(active)
    IN {o \in [1..k -> active] :
          /\ \A i, j \in 1..k : i # j => o[i] # o[j]
          /\ \A i, j \in 1..k :
                i < j => rs[o[i]].priority <= rs[o[j]].priority}

\* the loop of apply_rules_to_document from the i-th rule of `order` on:
\* the dictionary returned and the tables after the call
RECURSIVE ApplyRulesFrom(_, _, _, _, _, _, _)
ApplyRulesFrom(ds, a, rs, name, order, i, ok) ==
    IF i > Len(order)
    THEN [status |-> "no_match", message |-> "No rules matched the document",
          docs |-> ds, audit |-> a]
    ELSE LET d == ds[name]
             r == rs[order[i]]
         IN IF RuleMatches(r, d) /\ RuleCategory(r, d) # d.category
            THEN LET sv == DocSave(ds, a, name,
                               [d EXCEPT !.category = RuleCategory(r, d)], ok)
                 IN IF sv.threw # ""
                    THEN [status |-> "error", message |-> sv.threw,
                          docs |-> ds, audit |-> a]
                    ELSE [status |-> "success",
                          message |-> "Document categorized using rule",
                          docs |-> sv.docs, audit |-> sv.audit]
            ELSE ApplyRulesFrom(ds, a, rs, name, order, i + 1, ok)

\* the loop of bulk_upload_documents from the i-th item on: every item is an
\* upload_document call (the insert of the document row item.doc under the
\* name item.name); the tables after the loop and the two counters
RECURSIVE BulkUploadFrom(_, _, _, _, _, _)
BulkUploadFrom(ds, vs, a, items, i, ok) ==
    IF i > Len(items)
    THEN [docs |-> ds, versions |-> vs, audit |-> a, success |-> 0,
          failed |-> 0]
    ELSE LET r == DocInsert(ds, vs, a, items[i].name, items[i].doc, ok)
             rest == BulkUploadFrom(r.docs, r.versions, r.audit, items,
                                    i + 1, ok)
         IN IF r.threw = ""
            THEN [rest EXCEPT !.success = @ + 1]
            ELSE [rest EXCEPT !.failed = @ + 1]

\* the documents bulk_apply_rules asks for: no category or 'General'
Uncategorized(ds) == {n \in DOMAIN ds : ds[n].category \in {"", "General"}}

\* the loop of bulk_apply_rules over the documents of `todo`: the result of
\* apply_rules_to_document is counted when its status is 'success' or
\* 'no_match', an exception is counted as an error.  The calls do not
\* depend on each other, so the order of the documents is immaterial.
RECURSIVE BulkApplyOver(_, _, _, _, _, _)
BulkApplyOver(ds, a, rs, todo, order, ok) ==
    IF todo = {}
    THEN [docs |-> ds, audit |-> a, categorized |-> 0, no_match |-> 0,
          errors |-> 0]
    ELSE LET n == CHOOSE x \in todo : TRUE
             r == ApplyRulesFrom(ds, a, rs, n, order, 1, ok)
             rest == BulkApplyOver(r.docs, r.audit, rs, todo \ {n}, order, ok)
         IN IF r.status = "success"
            THEN [rest EXCEPT !.categorized = @ + 1]
            ELSE IF r.status = "no_match"
            THEN [rest EXCEPT !.no_match = @ + 1]
            ELSE rest

\* a table without the row `name`
Without(rows, name) == [n \in DOMAIN rows \ {name} |-> rows[n]]

\* a table with the row `name` inserted or replaced
With(rows, name, row) ==
    [n \in DOMAIN rows \cup {name} |-> IF n = name THEN row ELSE rows[n]]

\* ------------------------------------------------------------------ actions
Bounded == BagCardinality(audit) < MaxAudit

InsertDocument(name, d, ok) ==
    /\ Bounded
    /\ Len(versions) < MaxVersions
    /\ name \notin DOMAIN docs
    /\ LET r == DocInsert(docs, versions, audit, name, d, ok)
       IN /\ docs' = r.docs
          /\ versions' = r.versions
          /\ audit' = r.audit
          /\ last' = Result("insert_document",
                            IF r.threw # "" THEN "error" ELSE "success",
                            name, d.document_id, r.threw)
    /\ UNCHANGED <<categories, subcategories, doctypes, relationships, rules>>
    /\ UNCHANGED <<today, requests, walk>>

SaveDocument(name, d, ok) ==
    /\ Bounded
    /\ name \in DOMAIN docs
    /\ LET r == DocSave(docs, audit, name, d, ok)
       IN /\ docs' = r.docs
          /\ audit' = r.audit
          /\ last' = Result("save_document",
                            IF r.threw # "" THEN "error" ELSE "success",
                            name, d.document_id, r.threw)
    /\ UNCHANGED <<versions, categories, subcategories, doctypes,
                   relationships, rules>>
    /\ UNCHANGED <<today, requests, walk>>

create_new_version(parent_document, file_url, ok) ==
    /\ Bounded
    /\ Len(versions) < MaxVersions
    /\ LET r == CreateNewVersion(docs, versions, audit,
                                 parent_document, file_url, ok)
       IN /\ docs' = r.docs
          /\ versions' = r.versions
          /\ audit' = r.audit
          /\ last' = Result("create_new_version", r.status,
                            parent_document, r.version_number, r.message)
    /\ UNCHANGED <<categories, subcategories, doctypes, relationships, rules>>
    /\ UNCHANGED <<today, requests, walk>>

\* the version is made current again in place, no row is added
restore_version_in_place(version_name, ok) ==
    /\ Bounded
    /\ Len(versions) < MaxVersions
    /\ version_name \in 1..Len(versions)
    /\ versions[version_name].parent \in DOMAIN docs
    /\ versions' = [update_other_versions(versions,
                        versions[version_name].parent, version_name)
                    EXCEPT ![version_name].is_current_version = 1]
    /\ last' = Result("restore_version", "success",
                      versions[version_name].parent,
                      [version_number |->
                           versions[version_name].version_number,
                       version_name |-> version_name], "")
    /\ UNCHANGED <<docs, audit, categories, subcategories, doctypes,
                   relationships, rules>>
    /\ UNCHANGED <<today, requests, walk>>

\* restore_version(version_name): the value of the result is the version
\* asked for and the version_number returned
restore_version(version_name, ok) ==
    /\ Bounded
    /\ Len(versions) < MaxVersions
    /\ IF version_name \notin 1..Len(versions)
          \/ versions[version_name].parent \notin DOMAIN docs
       THEN /\ last' = Result("restore_version", "error", NoLink,
                              [version_number |-> 0,
                               version_name |-> version_name], "not found")
            /\ UNCHANGED <<docs, versions, audit>>
       ELSE LET v == versions[version_name]
                r == CreateNewVersion(docs, versions, audit,
                                      v.parent, v.file_url, ok)
            IN /\ docs' = r.docs
               /\ versions' = r.versions
               /\ audit' = r.audit
               /\ last' = Result("restore_version", r.status, v.parent,
                                 [version_number |-> r.version_number,
                                  version_name |-> version_name],
                                 r.message)
    /\ UNCHANGED <<categories, subcategories, doctypes, relationships, rules>>
    /\ UNCHANGED <<today, requests, walk>>

\* insert or save of the Archive Category `name` with the given field values
SaveCategory(name, code, parent) ==
    /\ Bounded
    /\ LET msg == CategoryValidate(categories, name, code, parent)
       IN IF msg # ""
          THEN /\ last' = Result("save_category", "error", name, parent, msg)
               /\ UNCHANGED <<categories, audit>>
          ELSE /\ categories' = With(categories, name,
                                     CategoryAfterValidate(name, code, parent))
               /\ audit' = IF name \in DOMAIN categories THEN audit
                           ELSE AuditInsert(audit,
                                    "Category Category Created", name)
               /\ last' = Result("save_category", "success", name, parent, "")
    /\ UNCHANGED <<docs, versions, subcategories, doctypes, relationships,
                   rules>>
    /\ UNCHANGED <<today, requests, walk>>

\* delete of the Archive Category `name`: on_trash, then the row is removed
DeleteCategory(name) ==
    /\ Bounded
    /\ name \in DOMAIN categories
    /\ LET msg == validate_category_deletion(categories, docs, name)
       IN IF msg # ""
          THEN /\ last' = Result("delete_category", "error", name, NoLink, msg)
               /\ UNCHANGED <<categories, audit>>
          ELSE /\ categories' = Without(categories, name)
               /\ audit' = AuditInsert(audit, "Category Category Deleted", name)
               /\ last' = Result("delete_category", "success", name, NoLink, "")
    /\ UNCHANGED <<docs, versions, subcategories, doctypes, relationships,
                   rules>>
    /\ UNCHANGED <<today, requests, walk>>

\* create_subcategory(subcategory_name, parent_category) without a code
create_subcategory(name, parent) ==
    /\ Bounded
    /\ name \notin DOMAIN subcategories
    /\ IF parent # NoLink /\ parent \notin DOMAIN categories
       THEN /\ last' = Result("create_subcategory", "error", name, parent,
                              "Archive Category not found")
            /\ UNCHANGED <<subcategories, audit>>
       ELSE /\ subcategories' = With(subcategories, name,
                                     [parent_category |-> parent])
            /\ audit' = AuditInsert(audit,
                            "Subcategory Subcategory Created", parent)
            /\ last' = Result("create_subcategory", "success", name, parent, "")
    /\ UNCHANGED <<docs, versions, categories, doctypes, relationships, rules>>
    /\ UNCHANGED <<today, requests, walk>>

\* delete of the Archive Subcategory `name`
DeleteSubcategory(name) ==
    /\ Bounded
    /\ name \in DOMAIN subcategories
    /\ IF validate_subcategory_deletion_throws(docs, name)
       THEN /\ last' = Result("delete_subcategory", "error", name, NoLink,
                              "Cannot delete subcategory with documents")
            /\ UNCHANGED <<subcategories, audit>>
       ELSE /\ subcategories' = Without(subcategories, name)
            /\ audit' = AuditInsert(audit, "Subcategory Subcategory Deleted",
                                    subcategories[name].parent_category)
            /\ last' = Result("delete_subcategory", "success", name, NoLink, "")
    /\ UNCHANGED <<docs, versions, categories, doctypes, relationships, rules>>
    /\ UNCHANGED <<today, requests, walk>>

\* create_document_type(document_type_name, document_type_code)
create_document_type(name, code) ==
    /\ Bounded
    /\ name \notin DOMAIN doctypes
    /\ IF validate_document_type_code_throws(doctypes, name, code)
       THEN /\ last' = Result("create_document_type", "error", name, code,
                              "Document Type Code already exists")
            /\ UNCHANGED <<doctypes, audit>>
       ELSE /\ doctypes' = With(doctypes, name, [document_type_code |-> code])
            /\ audit' = AuditInsert(audit,
                            "Document Type Document Type Created", NoLink)
            /\ last' = Result("create_document_type", "success", name, code, "")
    /\ UNCHANGED <<docs, versions, categories, subcategories, relationships,
                   rules>>
    /\ UNCHANGED <<today, requests, walk>>

\* delete of the Archive Document Type `name`
DeleteDocumentType(name) ==
    /\ Bounded
    /\ name \in DOMAIN doctypes
    /\ IF validate_document_type_deletion_throws(docs, name)
       THEN /\ last' = Result("delete_document_type", "error", name, NoLink,
                              "Cannot delete document type with documents")
            /\ UNCHANGED <<doctypes, audit>>
       ELSE /\ doctypes' = Without(doctypes, name)
            /\ audit' = AuditInsert(audit,
                            "Document Type Document Type Deleted", NoLink)
            /\ last' = Result("delete_document_type", "success", name, NoLink,
                              "")
    /\ UNCHANGED <<docs, versions, categories, subcategories, relationships,
                   rules>>
    /\ UNCHANGED <<today, requests, walk>>

\* add_relationship(parent_document, related_document_id, relationship_type)
add_relationship(parent, related, type) ==
    /\ BagCardinality(relationships) < MaxRelationships
    /\ LET r == AddRelationship(relationships, docs, audit,
                                parent, related, type)
       IN /\ relationships' = r.relationships
          /\ audit' = r.audit
          /\ last' = Result("add_relationship", r.status, parent,
                            [related |-> related, type |-> type], r.message)
    /\ UNCHANGED <<docs, versions, categories, subcategories, doctypes, rules>>
    /\ UNCHANGED <<today, requests, walk>>

\* remove_relationship(relationship_name) of a stored row
remove_relationship(e) ==
    /\ AuditCount(audit, "Relationship Relationship Deleted") < MaxRemovals
    /\ BagIn(e, relationships)
    /\ LET r == RemoveRelationship(relationships, audit, e)
       IN /\ relationships' = r.relationships
          /\ audit' = r.audit
          /\ last' = Result("remove_relationship", "success", e.parent,
                            [related |-> e.related_document_id,
                             type |-> e.relationship_type], "")
    /\ UNCHANGED <<docs, versions, categories, subcategories, doctypes, rules>>
    /\ UNCHANGED <<today, requests, walk>>

\* create_rule(rule_name, rule_type, keyword, pattern, document_type)
create_rule(name, r) ==
    /\ name \notin DOMAIN rules
    /\ LET msg == validate_rule_configuration(r)
       IN IF msg # ""
          THEN /\ last' = Result("create_rule", "error", name, r, msg)
               /\ UNCHANGED <<rules, audit>>
          ELSE /\ rules' = With(rules, name, r)
               /\ audit' = AuditInsert(audit, "Rule Rule Created", NoLink)
               /\ last' = Result("create_rule", "success", name, r, "")
    /\ UNCHANGED <<docs, versions, categories, subcategories, doctypes,
                   relationships>>
    /\ UNCHANGED <<today, requests, walk>>

\* delete of the Archive Category Rule `name`
DeleteRule(name) ==
    /\ Bounded
    /\ name \in DOMAIN rules
    /\ rules' = Without(rules, name)
    /\ audit' = AuditInsert(audit, "Rule Rule Deleted", NoLink)
    /\ last' = Result("delete_rule", "success", name, NoLink, "")
    /\ UNCHANGED <<docs, versions, categories, subcategories, doctypes,
                   relationships>>
    /\ UNCHANGED <<today, requests, walk>>

\* insert of an Archive Category Rule through the record's form: validate,
\* row insert, after_insert
InsertRule(name, r) ==
    /\ Bounded
    /\ name \notin DOMAIN rules
    /\ LET msg == validate_rule_configuration(r)
       IN IF msg # ""
          THEN /\ last' = Result("insert_rule", "error", name, r, msg)
               /\ UNCHANGED <<rules, audit>>
          ELSE /\ rules' = With(rules, name, r)
               /\ audit' = AuditInsert(audit, "Rule Rule Created", NoLink)
               /\ last' = Result("insert_rule", "success", name, r, "")
    /\ UNCHANGED <<docs, versions, categories, subcategories, doctypes,
                   relationships>>
    /\ UNCHANGED <<today, requests, walk>>

\* apply_rules_to_document(document_name); order is the result of get_all
apply_rules_to_document(document_name, order, ok) ==
    /\ Bounded
    /\ order \in RuleOrders(rules)
    /\ IF document_name \notin DOMAIN docs
       THEN /\ last' = Result("apply_rules_to_document", "error",
                              document_name, order,
                              "Archive Document not found")
            /\ UNCHANGED <<docs, audit>>
       ELSE LET r == ApplyRulesFrom(docs, audit, rules, document_name,
                                    order, 1, ok)
            IN /\ docs' = r.docs
               /\ audit' = r.audit
               /\ last' = Result("apply_rules_to_document", r.status,
                                 document_name, order, r.message)
    /\ UNCHANGED <<versions, categories, subcategories, doctypes,
                   relationships, rules>>
    /\ UNCHANGED <<today, requests, walk>>

\* the whitelisted encrypt_document(docname) of archive_document.py: get_doc,
\* doc.encrypt_document(), doc.save(), with no handler around them, so an
\* exception leaves the function (status "raised")
whitelisted_encrypt_document(docname, ok) ==
    /\ Bounded
    /\ IF docname \notin DOMAIN docs
       THEN /\ last' = Result("encrypt_document", "raised", docname, NoLink,
                              "Archive Document not found")
            /\ UNCHANGED <<docs, audit>>
       ELSE LET sv == DocSave(docs, audit, docname,
                              encrypt_document(docs[docname], ok), ok)
            IN /\ docs' = sv.docs
               /\ audit' = sv.audit
               /\ last' = IF sv.threw # ""
                          THEN Result("encrypt_document", "raised", docname,
                                      NoLink, sv.threw)
                          ELSE Result("encrypt_document", "success", docname,
                                      NoLink,
                                      "Document encrypted successfully")
    /\ UNCHANGED <<versions, categories, subcategories, doctypes,
                   relationships, rules>>
    /\ UNCHANGED <<today, requests, walk>>

\* the whitelisted decrypt_document(docname) of archive_document.py: get_doc,
\* doc.decrypt_document(), doc.save(), with no handler around them
whitelisted_decrypt_document(docname, dok, ok) ==
    /\ Bounded
    /\ IF docname \notin DOMAIN docs
       THEN /\ last' = Result("decrypt_document", "raised", docname, NoLink,
                              "Archive Document not found")
            /\ UNCHANGED <<docs, audit>>
       ELSE LET sv == DocSave(docs, audit, docname,
                              decrypt_document(docs[docname], dok), ok)
            IN /\ docs' = sv.docs
               /\ audit' = sv.audit
               /\ last' = IF sv.threw # ""
                          THEN Result("decrypt_document", "raised", docname,
                                      NoLink, sv.threw)
                          ELSE Result("decrypt_document", "success", docname,
                                      NoLink,
                                      "Document decrypted successfully")
    /\ UNCHANGED <<versions, categories, subcategories, doctypes,
                   relationships, rules>>
    /\ UNCHANGED <<today, requests, walk>>

\* insert of an Archive Audit Trail row with the given field values:
\* validate (validate_required_fields), before_save, row insert.
\* create_audit_entry is this insert with no compliance_flag supplied.
InsertAuditTrail(action, ref, supplied) ==
    /\ BagCardinality(audit) < MaxEntries
    /\ IF action = ""
       THEN /\ last' = Result("create_audit_entry", "error", ref,
                              [action |-> action, supplied |-> supplied],
                              "Action is required")
            /\ UNCHANGED audit
       ELSE /\ audit' = audit
                    (+) SetToBag({AuditTrailRow(action, ref, supplied)})
            /\ last' = Result("create_audit_entry", "success", ref,
                              [action |-> action, supplied |-> supplied], "")
    /\ UNCHANGED <<docs, versions, categories, subcategories, doctypes,
                   relationships, rules, today, requests, walk>>

\* the DELETE without its WHERE clause
cleanup_every_audit_entry ==
    /\ audit' = EmptyBag
    /\ last' = Result("cleanup_old_audit_entries", "success", NoLink,
                      BagCardinality(audit), "")
    /\ UNCHANGED <<docs, versions, categories, subcategories, doctypes,
                   relationships, rules, today, requests, walk>>

\* cleanup_old_audit_entries: DELETE ... WHERE retention_until < CURDATE()
cleanup_old_audit_entries ==
    /\ audit' = [r \in {x \in BagToSet(audit) : ~ (x.retention_until < today)}
                  |-> CopiesIn(r, audit)]
    /\ last' = Result("cleanup_old_audit_entries", "success", NoLink,
                      BagCardinality(audit) - BagCardinality(audit'), "")
    /\ UNCHANGED <<docs, versions, categories, subcategories, doctypes,
                   relationships, rules, today, requests, walk>>

\* the date moves on
Tick(days) ==
    /\ today + days <= MaxDay
    /\ today' = today + days
    /\ UNCHANGED <<docs, versions, categories, subcategories, doctypes,
                   relationships, rules, audit, last, requests, walk>>

\* ------------------------------------------- create_new_version, step by step
\* A request is one call of create_new_version that runs next to others:
\* every read and write of the store is a step of its own.  pc is the next
\* step, version_number and doc are what the request has read, overlapped
\* tells whether another request was running while this one was.
RequestIds == {"q1", "q2"}

NoDoc == DocRow("", "", "", "", "", "", "")

Request(parent, file_url, overlapped) ==
    [status |-> "running", message |-> "", version_number |-> 0,
     file_url |-> file_url, pc |-> "read_last_version",
     parent_document |-> parent, overlapped |-> overlapped, doc |-> NoDoc]

Running(q) == q \in DOMAIN requests /\ requests[q].pc # "done"

Finish(q, status, message) ==
    [requests EXCEPT ![q].pc = "done", ![q].status = status,
                     ![q].message = message]

\* the request arrives
StartRequest(q, parent, file_url) ==
    /\ q \notin DOMAIN requests
    /\ LET busy == \E o \in DOMAIN requests : Running(o)
       IN requests' =
            [o \in DOMAIN requests \cup {q} |->
                IF o = q THEN Request(parent, file_url, busy)
                ELSE IF Running(o) THEN [requests[o] EXCEPT !.overlapped = TRUE]
                ELSE requests[o]]
    /\ UNCHANGED <<docs, versions, categories, subcategories, doctypes,
                   relationships, rules, audit, last, today, walk>>

\* get_all for the largest version_number, then the lookup of the File row
ReadLastVersion(q) ==
    /\ Running(q) /\ requests[q].pc = "read_last_version"
    /\ LET r == requests[q]
       IN IF r.file_url # "" /\ r.file_url \notin Files
          THEN /\ requests' = Finish(q, "error", "File not found")
               /\ last' = Result("create_new_version", "error",
                                 r.parent_document, 0, "File not found")
          ELSE /\ requests' =
                    [requests EXCEPT
                       ![q].version_number =
                           next_version_number(versions, r.parent_document),
                       ![q].pc = "validate_version_number"]
               /\ UNCHANGED last
    /\ UNCHANGED <<docs, versions, categories, subcategories, doctypes,
                   relationships, rules, audit, today, walk>>

\* version_doc.insert(), validate: the query of validate_version_number
ValidateVersionNumber(q) ==
    /\ Running(q) /\ requests[q].pc = "validate_version_number"
    /\ LET r == requests[q]
       IN IF validate_version_number_throws(versions, r.parent_document,
                                           r.version_number)
          THEN /\ requests' = Finish(q, "error",
                                     "Version number already exists")
               /\ last' = Result("create_new_version", "error",
                                 r.parent_document, 0,
                                 "Version number already exists")
          ELSE /\ requests' = [requests EXCEPT
                                 ![q].pc = "update_other_versions"]
               /\ UNCHANGED last
    /\ UNCHANGED <<docs, versions, categories, subcategories, doctypes,
                   relationships, rules, audit, today, walk>>

\* the siblings are left as they are
UpdateOtherVersionsSkipped(q) ==
    /\ Running(q) /\ requests[q].pc = "update_other_versions"
    /\ requests' = [requests EXCEPT ![q].pc = "insert_version"]
    /\ UNCHANGED <<docs, versions, categories, subcategories, doctypes,
                   relationships, rules, audit, last, today, walk>>

\* version_doc.insert(), before_save: the UPDATE of update_other_versions;
\* the row of the request is not in the table yet, no row has its name
UpdateOtherVersions(q) ==
    /\ Running(q) /\ requests[q].pc = "update_other_versions"
    /\ versions' = update_other_versions(versions,
                                         requests[q].parent_document, 0)
    /\ requests' = [requests EXCEPT ![q].pc = "insert_version"]
    /\ UNCHANGED <<docs, categories, subcategories, doctypes,
                   relationships, rules, audit, last, today, walk>>

\* version_doc.insert(): the row is written, then the audit row of
\* after_insert
InsertVersion(q) ==
    /\ Running(q) /\ requests[q].pc = "insert_version"
    /\ LET r == requests[q]
       IN /\ versions' = Append(versions,
                               VersionRow(r.parent_document, r.version_number,
                                          r.file_url, 1))
          /\ audit' = AuditInsert(audit, "Version Version Created",
                                  r.parent_document)
    /\ requests' = [requests EXCEPT ![q].pc = "get_parent"]
    /\ UNCHANGED <<docs, categories, subcategories, doctypes,
                   relationships, rules, last, today, walk>>

\* frappe.get_doc("Archive Document", parent_document)
GetParent(q) ==
    /\ Running(q) /\ requests[q].pc = "get_parent"
    /\ LET r == requests[q]
       IN IF r.parent_document \notin DOMAIN docs
          THEN /\ requests' = Finish(q, "error", "Archive Document not found")
               /\ last' = Result("create_new_version", "error",
                                 r.parent_document, 0,
                                 "Archive Document not found")
          ELSE /\ requests' = [requests EXCEPT
                                 ![q].doc = docs[r.parent_document],
                                 ![q].pc = "save_parent"]
               /\ UNCHANGED last
    /\ UNCHANGED <<docs, versions, categories, subcategories, doctypes,
                   relationships, rules, audit, today, walk>>

\* parent_doc.file_attachment = file_url; parent_doc.save(): the document
\* the request has read is written back
SaveParent(q) ==
    /\ Running(q) /\ requests[q].pc = "save_parent"
    /\ LET r == requests[q]
           sv == DocSave(docs, audit, r.parent_document,
                         [r.doc EXCEPT !.file_attachment = r.file_url], TRUE)
       IN /\ docs' = sv.docs
          /\ audit' = sv.audit
          /\ requests' = Finish(q, IF sv.threw # "" THEN "error"
                                   ELSE "success", sv.threw)
          /\ last' = Result("create_new_version",
                            IF sv.threw # "" THEN "error" ELSE "success",
                            r.parent_document,
                            IF sv.threw # "" THEN 0 ELSE r.version_number,
                            sv.threw)
    /\ UNCHANGED <<versions, categories, subcategories, doctypes,
                   relationships, rules, today, walk>>

\* bulk_upload_documents(documents_data): the items are uploads of new
\* documents
bulk_upload_documents(items, ok) ==
    /\ BagCardinality(audit) + 3 * Len(items) <= MaxAudit
    /\ Len(versions) + Len(items) <= MaxVersions
    /\ \A i \in 1..Len(items) :
          /\ items[i].name \notin DOMAIN docs
          /\ \A j \in 1..Len(items) : i # j => items[i].name # items[j].name
    /\ LET r == BulkUploadFrom(docs, versions, audit, items, 1, ok)
       IN /\ docs' = r.docs
          /\ versions' = r.versions
          /\ audit' = r.audit
          /\ last' = Result("bulk_upload_documents", "success", NoLink,
                            [success |-> r.success, failed |-> r.failed,
                             total |-> Len(items)], "")
    /\ UNCHANGED <<categories, subcategories, doctypes, relationships, rules>>
    /\ UNCHANGED <<today, requests, walk>>

\* bulk_apply_rules(); order is the result of get_all for the active rules
bulk_apply_rules(order, ok) ==
    /\ BagCardinality(audit) + Cardinality(Uncategorized(docs)) <= MaxAudit
    /\ order \in RuleOrders(rules)
    /\ LET r == BulkApplyOver(docs, audit, rules, Uncategorized(docs),
                              order, ok)
       IN /\ docs' = r.docs
          /\ audit' = r.audit
          /\ last' = Result("bulk_apply_rules", "returned", NoLink,
                            [categorized |-> r.categorized,
                             no_match |-> r.no_match, errors |-> r.errors,
                             total_documents
                                 |-> Cardinality(Uncategorized(docs))], "")
    /\ UNCHANGED <<versions, categories, subcategories, doctypes,
                   relationships, rules>>
    /\ UNCHANGED <<today, requests, walk>>

\* doc.add_related_document(related_doc_id, relationship_type) on a stored
\* document: the row is inserted alone, then the audit row of the document;
\* an exception of the insert leaves the method
add_related_document(doc, related_doc_id, relationship_type) ==
    /\ BagCardinality(relationships) < MaxRelationships
    /\ doc \in DOMAIN docs
    /\ LET ins == RelationshipInsert(relationships, docs, audit,
                      Edge(doc, related_doc_id, relationship_type))
       IN /\ relationships' = ins.relationships
          /\ audit' = IF ins.threw # "" THEN ins.audit
                      ELSE AuditInsert(ins.audit,
                               "Added related document: " \o related_doc_id,
                               doc)
          /\ last' = Result("add_related_document",
                            IF ins.threw # "" THEN "raised" ELSE "returned",
                            doc,
                            [related |-> related_doc_id,
                             type |-> relationship_type], ins.threw)
    /\ UNCHANGED <<docs, versions, categories, subcategories, doctypes, rules>>
    /\ UNCHANGED <<today, requests, walk>>

\* ---- the file requirements of an Archive Document Type
\* str.split(sep) of a text
RECURSIVE split(_, _)
split(s, sep) ==
    IF \A i \in 1..Len(s) : s[i] # sep THEN <<s>>
    ELSE LET i == CHOOSE k \in 1..Len(s) :
                      s[k] = sep /\ \A j \in 1..(k - 1) : s[j] # sep
         IN <<SubSeq(s, 1, i - 1)>> \o split(SubSeq(s, i + 1, Len(s)), sep)

\* str.strip() of a text
RECURSIVE strip(_)
strip(s) ==
    IF s # <<>> /\ Head(s) = " " THEN strip(Tail(s))
    ELSE IF s # <<>> /\ s[Len(s)] = " " THEN strip(SubSeq(s, 1, Len(s) - 1))
    ELSE s

\* str.replace('.', '') of a text
replace_dots(s) == SelectSeq(s, LAMBDA c : c # ".")

\* str.isalnum() on the characters in use
isalnum(s) == s # <<>> /\ \A i \in 1..Len(s) : s[i] \in {"a", "A"}

\* [ft.strip().lower() for ft in allowed_file_types.split(',')]
get_allowed_file_types_list(allowed) ==
    IF allowed = <<>> THEN <<>>
    ELSE [i \in 1..Len(split(allowed, ",")) |->
             LowerText(strip(split(allowed, ",")[i]))]

\* validate_file_requirements: the message of the exception, "" if none
validate_file_requirements(allowed, max_file_size) ==
    IF \E i \in 1..Len(get_allowed_file_types_list(allowed)) :
          ~ isalnum(replace_dots(get_allowed_file_types_list(allowed)[i]))
    THEN "Invalid file type format"
    ELSE IF max_file_size # 0 /\ max_file_size <= 0
    THEN "Max file size must be greater than 0"
    ELSE ""

\* ArchiveDocumentType.validate_file_type(file_extension)
validate_file_type(allowed, file_extension) ==
    IF allowed = <<>> THEN TRUE
    ELSE \E i \in 1..Len(get_allowed_file_types_list(allowed)) :
            get_allowed_file_types_list(allowed)[i]
                = replace_dots(LowerText(file_extension))

DocumentTypeRow(code, allowed, max_file_size) ==
    [document_type_code |-> code, max_file_size |-> max_file_size,
     allowed_file_types |-> allowed]

\* insert or save of the Archive Document Type `name` with the given field
\* values: validate, row write, after_insert on an insert
SaveDocumentType(name, code, allowed, max_file_size) ==
    /\ Bounded
    /\ LET msg == IF validate_document_type_code_throws(doctypes, name, code)
                  THEN "Document Type Code already exists"
                  ELSE validate_file_requirements(allowed, max_file_size)
       IN IF msg # ""
          THEN /\ last' = Result("save_document_type", "error", name,
                                 allowed, msg)
               /\ UNCHANGED <<doctypes, audit>>
          ELSE /\ doctypes' = With(doctypes, name,
                                   DocumentTypeRow(code, allowed,
                                                   max_file_size))
               /\ audit' = IF name \in DOMAIN doctypes THEN audit
                           ELSE AuditInsert(audit,
                                    "Document Type Document Type Created",
                                    NoLink)
               /\ last' = Result("save_document_type", "success", name,
                                 allowed, "")
    /\ UNCHANGED <<docs, versions, categories, subcategories, relationships,
                   rules>>
    /\ UNCHANGED <<today, requests, walk>>

\* doc_type.validate_file_type(file_extension) on the stored document type
ValidateFileType(name, file_extension) ==
    /\ name \in DOMAIN doctypes
    /\ last' = Result("validate_file_type", "returned", name,
                      [file_extension |-> file_extension,
                       result |-> validate_file_type(
                                      doctypes[name].allowed_file_types,
                                      file_extension)], "")
    /\ UNCHANGED <<docs, versions, categories, subcategories, doctypes,
                   relationships, rules, audit, today, requests, walk>>

\* ---- the walks up the stored parent pointers, one record at a time
\* MaxWalk caps the records one walk loads
NoWalk ==
    [status |-> "none", current |-> NoLink, parent_name |-> NoLink,
     result |-> FALSE, kind |-> "none", start |-> NoLink,
     hierarchy |-> <<>>, depth |-> 0]

\* category.is_child_of(parent_name) or get_category_hierarchy(category) is
\* called on a stored category
StartWalk(kind, category, parent_name) ==
    /\ walk.status # "walking"
    /\ category \in DOMAIN categories
    /\ walk' = [status |-> "walking", current |-> category,
                parent_name |-> IF kind = "is_child_of" THEN parent_name
                                ELSE NoLink,
                result |-> FALSE, kind |-> kind, start |-> category,
                hierarchy |-> <<>>, depth |-> 0]
    /\ UNCHANGED <<docs, versions, categories, subcategories, doctypes,
                   relationships, rules, audit, last, today, requests>>

\* one frame of is_child_of on the record walk.current: False without a
\* parent, True when the parent is parent_name, else the parent is loaded
\* and asked in turn
IsChildOfCall ==
    /\ walk.status = "walking" /\ walk.kind = "is_child_of"
    /\ walk.depth < MaxWalk
    /\ LET parent == categories[walk.current].parent_category IN
         walk' = IF parent = NoLink
                   THEN [walk EXCEPT !.status = "returned", !.result = FALSE]
                 ELSE IF parent = walk.parent_name
                   THEN [walk EXCEPT !.status = "returned", !.result = TRUE]
                 ELSE IF parent \notin DOMAIN categories
                   THEN [walk EXCEPT !.status = "raised"]
                 ELSE [walk EXCEPT !.current = parent,
                                   !.depth = walk.depth + 1]
    /\ UNCHANGED <<docs, versions, categories, subcategories, doctypes,
                   relationships, rules, audit, last, today, requests>>

\* the loop with a set of the records seen, which the source does not keep
GetCategoryHierarchyLoopVisited ==
    /\ walk.status = "walking" /\ walk.kind = "get_category_hierarchy"
    /\ walk.depth < MaxWalk
    /\ LET parent == categories[walk.current].parent_category
           hierarchy == <<walk.current>> \o walk.hierarchy IN
         walk' = IF parent = NoLink
                    \/ \E i \in 1..Len(hierarchy) : hierarchy[i] = parent
                   THEN [walk EXCEPT !.hierarchy = hierarchy,
                                     !.status = "returned"]
                 ELSE IF parent \notin DOMAIN categories
                   THEN [walk EXCEPT !.hierarchy = hierarchy,
                                     !.status = "raised"]
                 ELSE [walk EXCEPT !.hierarchy = hierarchy,
                                   !.current = parent,
                                   !.depth = walk.depth + 1]
    /\ UNCHANGED <<docs, versions, categories, subcategories, doctypes,
                   relationships, rules, audit, last, today, requests>>

\* one turn of the while loop of get_category_hierarchy: the record goes to
\* the front of the list (an entry is written as the record's name), then
\* the parent is loaded, or the loop ends at a record without parent
GetCategoryHierarchyLoop ==
    /\ walk.status = "walking" /\ walk.kind = "get_category_hierarchy"
    /\ walk.depth < MaxWalk
    /\ LET parent == categories[walk.current].parent_category
           hierarchy == <<walk.current>> \o walk.hierarchy IN
         walk' = IF parent = NoLink
                   THEN [walk EXCEPT !.hierarchy = hierarchy,
                                     !.status = "returned"]
                 ELSE IF parent \notin DOMAIN categories
                   THEN [walk EXCEPT !.hierarchy = hierarchy,
                                     !.status = "raised"]
                 ELSE [walk EXCEPT !.hierarchy = hierarchy,
                                   !.current = parent,
                                   !.depth = walk.depth + 1]
    /\ UNCHANGED <<docs, versions, categories, subcategories, doctypes,
                   relationships, rules, audit, last, today, requests>>

\* ------------------------------------------------------------ specifications
EmptyRows == [n \in {} |-> 0]

\* no request is running
NoRequests == [q \in {} |-> 0]

Init ==
    /\ docs = EmptyRows
    /\ versions = <<>>
    /\ categories = EmptyRows
    /\ subcategories = EmptyRows
    /\ doctypes = EmptyRows
    /\ relationships = EmptyBag
    /\ rules = EmptyRows
    /\ audit = EmptyBag
    /\ last = Result("none", "none", NoLink, 0, "")
    /\ today = 0
    /\ requests = NoRequests
    /\ walk = NoWalk

\* documents and their versions
Next ==
    \/ \E n \in DocNames, id \in DocumentIds, f \in UploadUrls,
          l \in AccessLevels, ok \in BOOLEAN :
          InsertDocument(n, DocRow(id, f, l, "Not Encrypted",
                                   NoLink, NoLink, NoLink), ok)
    \/ \E p \in DocNames, f \in VersionUrls, ok \in BOOLEAN :
          create_new_version(p, f, ok)
    \/ \E v \in 1..MaxVersions, ok \in BOOLEAN : restore_version(v, ok)

Spec == Init /\ [][Next]_vars

\* documents that are inserted and saved again with other field values
NextDocuments ==
    \/ \E n \in DocNames, id \in DocumentIds, f \in UploadUrls :
          InsertDocument(n, DocRow(id, f, "Internal", "Not Encrypted",
                                   NoLink, NoLink, NoLink), TRUE)
    \/ \E n \in DocNames, id \in DocumentIds, l \in AccessLevels,
          ok \in BOOLEAN :
          /\ n \in DOMAIN docs
          /\ SaveDocument(n, [docs[n] EXCEPT !.document_id = id,
                                             !.access_level = l], ok)

SpecDocuments == Init /\ [][NextDocuments]_vars

\* link fields of a document hold the name of a stored row or nothing
Links(rows) == DOMAIN rows \cup {NoLink}

\* categories, subcategories, document types and a document that refers
\* to them
NextCatalog ==
    \/ \E n \in CategoryNames, c \in CategoryCodes,
          p \in CategoryNames \cup {NoLink} : SaveCategory(n, c, p)
    \/ \E n \in CategoryNames : DeleteCategory(n)
    \/ \E n \in SubcategoryNames, p \in CategoryNames : create_subcategory(n, p)
    \/ \E n \in SubcategoryNames : DeleteSubcategory(n)
    \/ \E n \in TypeNames, c \in TypeCodes : create_document_type(n, c)
    \/ \E n \in TypeNames : DeleteDocumentType(n)
    \/ \E c \in Links(categories), sc \in Links(subcategories),
          t \in Links(doctypes) :
          InsertDocument("d1", DocRow("ID1", "", "Internal", "Not Encrypted",
                                      c, sc, t), TRUE)
    \/ \E c \in Links(categories), sc \in Links(subcategories),
          t \in Links(doctypes) :
          /\ "d1" \in DOMAIN docs
          /\ SaveDocument("d1", [docs["d1"] EXCEPT !.category = c,
                                                  !.subcategory = sc,
                                                  !.document_type = t], TRUE)

SpecCatalog == Init /\ [][NextCatalog]_vars

\* the ancestors of the category n: at most k steps along parent_category
RECURSIVE Up(_, _, _)
Up(cs, n, k) ==
    IF k = 0 \/ n \notin DOMAIN cs THEN {}
    ELSE IF cs[n].parent_category = NoLink THEN {}
    ELSE {cs[n].parent_category} \cup Up(cs, cs[n].parent_category, k - 1)

Ancestors(cs, n) == Up(cs, n, Cardinality(DOMAIN cs))

Acyclic(cs) == \A n \in DOMAIN cs : n \notin Ancestors(cs, n)

\* category tables that hold a hierarchy already: every parent is a stored
\* row, no cycle, every row with a code of its own
StoredCategories ==
    {cs \in UNION {[S -> {CategoryRow(<<"K">>, p) :
                              p \in CategoryNames \cup {NoLink}}] :
                      S \in SUBSET CategoryNames} :
        /\ \A n \in DOMAIN cs : cs[n].parent_category \in Links(cs)
        /\ Acyclic(cs)}

InitStored ==
    /\ docs = EmptyRows
    /\ versions = <<>>
    /\ categories \in {[n \in DOMAIN cs |->
                            CategoryRow(Chars[n], cs[n].parent_category)] :
                        cs \in StoredCategories}
    /\ subcategories = EmptyRows
    /\ doctypes = EmptyRows
    /\ relationships = EmptyBag
    /\ rules = EmptyRows
    /\ audit = EmptyBag
    /\ last = Result("none", "none", NoLink, 0, "")
    /\ today = 0
    /\ requests = NoRequests
    /\ walk = NoWalk

\* saves and deletions of categories and a document filed under one
NextStored ==
    \/ \E n \in CategoryNames, p \in CategoryNames \cup {NoLink} :
          SaveCategory(n, NoCode, p)
    \/ \E n \in CategoryNames : DeleteCategory(n)
    \/ \E c \in Links(categories) :
          InsertDocument("d1", DocRow("ID1", "", "Internal", "Not Encrypted",
                                      c, NoLink, NoLink), TRUE)

SpecStored == InitStored /\ [][NextStored]_vars

\* ------------------------------------------------------------------ claims
CurrentVersions(p) ==
    {i \in 1..Len(versions) :
        versions[i].parent = p /\ versions[i].is_current_version = 1}

\* C1: after any sequence of document insertions, create_new_version and
\* restore_version calls, every Archive Document has at most one version
\* row with is_current_version = 1.
C1_AtMostOneCurrent ==
    \A p \in DocNames : Cardinality(CurrentVersions(p)) <= 1

\* a document whose version 2 was current and was flipped off by version 3
C1_Witness ==
    \E p \in DOMAIN docs : \E i, j \in 1..Len(versions) :
        /\ versions[i].parent = p /\ versions[j].parent = p
        /\ versions[i].version_number = 2
        /\ versions[i].is_current_version = 0
        /\ versions[j].version_number = 3
        /\ versions[j].is_current_version = 1

DuplicateOf(name, id) ==
    \E n \in DOMAIN docs : n # name /\ docs[n].document_id = id

\* C4: no two stored Archive Documents have the same document_id, and an
\* insert or save whose document_id another stored document already has
\* is rejected and stores nothing.
C4_DocumentIdUnique ==
    /\ [](\A n, m \in DOMAIN docs :
            n # m => docs[n].document_id # docs[m].document_id)
    /\ [][(/\ last'.op \in {"insert_document", "save_document"}
           /\ DuplicateOf(last'.target, last'.value))
          => (/\ last'.status = "error"
              /\ UNCHANGED <<docs, versions, audit>>)]_vars

\* two stored documents, and a save that asked for the other one's id
C4_Witness ==
    /\ Cardinality(DOMAIN docs) = 2
    /\ last.op = "save_document"
    /\ last.status = "error"
    /\ DuplicateOf(last.target, last.value)

NumbersOf(vs, p) ==
    {vs[i].version_number : i \in {k \in 1..Len(vs) : vs[k].parent = p}}

\* C10: a successful create_new_version(parent) returns and stores
\* version_number = 1 + the largest version_number stored for the parent
\* (1 if it has none), and the version numbers of one parent are pairwise
\* distinct after any sequence of inserts, create_new_version and
\* restore_version calls.
C10_NextVersionNumber ==
    /\ [](\A i, j \in 1..Len(versions) :
            (i # j /\ versions[i].parent = versions[j].parent)
                => versions[i].version_number # versions[j].version_number)
    /\ [][(last'.op = "create_new_version" /\ last'.status = "success")
          => LET old == NumbersOf(versions, last'.target)
                 new == versions'[Len(versions')]
             IN /\ Len(versions') = Len(versions) + 1
                /\ new.parent = last'.target
                /\ new.version_number = last'.value
                /\ old = {} => last'.value = 1
                /\ old # {} => \E m \in old :
                        /\ \A k \in old : k <= m
                        /\ last'.value = m + 1]_vars

\* a third version was created for a document while the other document
\* has rows of its own
C10_Witness ==
    /\ last.op = "create_new_version"
    /\ last.status = "success"
    /\ last.value = 3
    /\ \E q \in DocNames : q # last.target /\ NumbersOf(versions, q) # {}

\* C2: after any sequence of Archive Category saves the parent_category
\* graph is acyclic (no category is its own parent or its own ancestor),
\* and a save that would close a cycle is rejected at validate time.
C2_CategoryTreeAcyclic ==
    /\ []Acyclic(categories)
    /\ [][(/\ last'.op = "save_category"
           /\ last'.value # NoLink
           /\ \/ last'.value = last'.target
              \/ last'.target \in Ancestors(categories, last'.value))
          => (/\ last'.status = "error"
              /\ UNCHANGED <<categories, audit>>)]_vars

\* an ancestor was saved with one of its descendants as parent, and refused
C2_Witness ==
    /\ last.op = "save_category"
    /\ last.status = "error"
    /\ last.value \in DOMAIN categories
    /\ last.target \in Ancestors(categories, last.value)

\* C3: a save of a category whose parent_category names a stored category
\* that is neither the category itself nor one of its descendants is not
\* refused by validate_parent_category.
C3_ParentAccepted ==
    [][(/\ last'.op = "save_category"
        /\ last'.value \in DOMAIN categories
        /\ last'.value # last'.target
        /\ last'.target \notin Ancestors(categories, last'.value))
       => last'.message \notin
            {"Category cannot be its own parent",
             "Circular reference detected in category hierarchy"}]_vars

\* C5: no two stored categories have the same category_code, the codes
\* that set_default_values derives from category_name included.
C5_CategoryCodeUnique ==
    \A n, m \in DOMAIN categories :
        n # m => categories[n].category_code # categories[m].category_code

HasChild(cs, name) == \E n \in DOMAIN cs : cs[n].parent_category = name

HasDocument(ds, name) == \E d \in DOMAIN ds : ds[d].category = name

\* C6: deleting a category succeeds only if no category has it as
\* parent_category and no document has it as category; otherwise the
\* deletion is rejected, the category stays and no audit row is written.
C6_CategoryDeletion ==
    [][last'.op = "delete_category"
       => IF HasChild(categories, last'.target)
             \/ HasDocument(docs, last'.target)
          THEN /\ last'.status = "error"
               /\ UNCHANGED <<categories, audit>>
          ELSE /\ last'.status = "success"
               /\ last'.target \notin DOMAIN categories']_vars

\* the deletion of a category that has a child and a document was refused
C6_Witness ==
    /\ last.op = "delete_category"
    /\ last.status = "error"
    /\ last.target \in DOMAIN categories
    /\ HasChild(categories, last.target)
    /\ HasDocument(docs, last.target)
    /\ AuditCount(audit, "Category Category Deleted") = 0

\* C7: deleting a subcategory or a document type is rejected while a
\* document refers to it, so no row that a document refers to is removed.
C7_ReferencedNotDeleted ==
    [][/\ \A n \in DOMAIN subcategories \ DOMAIN subcategories' :
            ~ \E d \in DOMAIN docs : docs[d].subcategory = n
       /\ \A n \in DOMAIN doctypes \ DOMAIN doctypes' :
            ~ \E d \in DOMAIN docs : docs[d].document_type = n
       /\ (/\ last'.op = "delete_subcategory"
           /\ \E d \in DOMAIN docs : docs[d].subcategory = last'.target)
          => (last'.status = "error" /\ UNCHANGED <<subcategories, audit>>)
       /\ (/\ last'.op = "delete_document_type"
           /\ \E d \in DOMAIN docs : docs[d].document_type = last'.target)
          => (last'.status = "error" /\ UNCHANGED <<doctypes, audit>>)]_vars

\* the deletion of a subcategory was refused for a document that refers to
\* it and to a document type
C7_Witness ==
    /\ last.op = "delete_subcategory"
    /\ last.status = "error"
    /\ \E d \in DOMAIN docs :
        /\ docs[d].subcategory = last.target
        /\ docs[d].subcategory \in DOMAIN subcategories
        /\ docs[d].document_type \in DOMAIN doctypes

\* two documents and the relationships between them
NextRelations ==
    \/ \E n \in DocNames :
          InsertDocument(n, DocRow(IF n = "d1" THEN "ID1" ELSE "ID2", "",
                                   "Internal", "Not Encrypted",
                                   NoLink, NoLink, NoLink), TRUE)
    \/ \E p \in DocNames, r \in DocNames, t \in RelationshipTypes :
          add_relationship(p, r, t)
    \/ \E e \in BagToSet(relationships) : remove_relationship(e)

SpecRelations == Init /\ [][NextRelations]_vars

\* categorization rules
NextRules ==
    \/ \E n \in RuleNames, t \in RuleTypes, k \in Keywords, p \in Patterns,
          dt \in {NoLink, "t1"} : create_rule(n, RuleRow(t, k, p, dt))
    \/ \E n \in RuleNames : DeleteRule(n)

SpecRules == Init /\ [][NextRules]_vars

\* the pairs of types that the table maps to each other
SymmetricPairs ==
    {{t, reverse_relationships[t]} : t \in DOMAIN reverse_relationships}

\* the type paired with t
Paired(t) ==
    CHOOSE u \in RelationshipTypes : \E P \in SymmetricPairs : P = {t, u}

ReverseEdgeStored ==
    (/\ last.op = "add_relationship"
     /\ last.status = "success"
     /\ last.value.type \in UNION SymmetricPairs)
    => /\ BagIn(Edge(last.target, last.value.related, last.value.type),
                relationships)
       /\ BagIn(Edge(last.value.related, last.target,
                     Paired(last.value.type)), relationships)

\* C8 as stated: there are six symmetric pairs of relationship types, and
\* for every type T of a pair a successful add_relationship(A, B, T)
\* leaves the edge A->B of type T and the edge B->A of the paired type.
C8_SixPairs ==
    /\ Cardinality(SymmetricPairs) = 6
    /\ ReverseEdgeStored

\* C8 amended: the symmetric pairs are four (Supersedes/Superseded By,
\* References/Referenced By, Part Of/Contains, Version Of/Original Of), and
\* for every type T of a pair a successful add_relationship(A, B, T)
\* leaves the edge A->B of type T and the edge B->A of the paired type.
C8_FourPairs ==
    /\ Cardinality(SymmetricPairs) = 4
    /\ Cardinality(UNION SymmetricPairs) = 8
    /\ ReverseEdgeStored

\* a successful add_relationship of type "Original Of" next to another edge
C8_Witness ==
    /\ last.op = "add_relationship"
    /\ last.status = "success"
    /\ last.value.type = "Original Of"
    /\ BagCardinality(relationships) > 2

InvalidRule(r) ==
    \/ r.rule_type = "Pattern" /\ r.pattern # <<>>
       /\ ~ re_compile(r.pattern, 1, 0)
    \/ r.rule_type = "Keyword" /\ r.keyword = ""
    \/ r.rule_type = "Pattern" /\ r.pattern = <<>>
    \/ r.rule_type = "Document Type" /\ r.document_type = NoLink

\* C9: a Pattern rule whose pattern does not compile, a Keyword rule
\* without keyword, a Pattern rule without pattern and a Document Type
\* rule without document_type are rejected at validate time: the rule is
\* not stored and create_rule returns status 'error'.
C9_InvalidRuleRejected ==
    [][(last'.op = "create_rule" /\ InvalidRule(last'.value))
       => (/\ last'.status = "error"
           /\ UNCHANGED <<rules, audit>>)]_vars

\* create_rule was refused for a pattern with an unclosed parenthesis
C9_Witness ==
    /\ last.op = "create_rule"
    /\ last.status = "error"
    /\ last.value.rule_type = "Pattern"
    /\ last.value.pattern = <<"(", "a">>
    /\ last.message = "Invalid regex pattern"
    /\ rules = EmptyRows

\* C11: a successful restore_version(v) adds exactly one version row, to
\* v's parent, with v's file_url and a version_number one more than the
\* parent's previous maximum; it deletes no row and leaves parent,
\* version_number and file_url of every existing row as they were (rows of
\* other parents are left alone altogether).
C11_RestoreKeepsHistory ==
    [][(last'.op = "restore_version" /\ last'.status = "success")
       => LET v == versions[last'.value.version_name]
              new == versions'[Len(versions')]
          IN /\ Len(versions') = Len(versions) + 1
             /\ new.parent = v.parent
             /\ new.file_url = v.file_url
             /\ new.version_number = last_version(versions, v.parent) + 1
             /\ \A i \in 1..Len(versions) :
                    /\ versions'[i].parent = versions[i].parent
                    /\ versions'[i].version_number
                           = versions[i].version_number
                    /\ versions'[i].file_url = versions[i].file_url
                    /\ versions[i].parent # v.parent
                          => versions'[i] = versions[i]]_vars

\* an older version with another file than the latest one was restored
C11_Witness ==
    /\ last.op = "restore_version"
    /\ last.status = "success"
    /\ Len(versions) >= 3
    /\ LET v == versions[last.value.version_name]
           new == versions[Len(versions)]
       IN /\ v.version_number + 1 < new.version_number
          /\ new.file_url = v.file_url
          /\ \E i \in 1..Len(versions) :
                /\ versions[i].parent = v.parent
                /\ versions[i].file_url # v.file_url
                /\ versions[i].is_current_version = 0

\* an Archive Document row with its title
TitledDocRow(id, title, cat, typ) ==
    [document_id |-> id, file_attachment |-> "", access_level |-> "Internal",
     encryption_status |-> "Not Encrypted", category |-> cat,
     subcategory |-> NoLink, document_type |-> typ, document_title |-> title]

\* the rule rows of the three types that can match, with the fields their
\* type needs
ApplyRuleRows(cs, ts) ==
    {CategoryRuleRow("Keyword", "invoice", <<>>, NoLink, p, act, c) :
        p \in Priorities, act \in BOOLEAN, c \in Links(cs)}
    \cup {CategoryRuleRow("Pattern", "", <<"a">>, NoLink, p, TRUE, c) :
        p \in Priorities, c \in Links(cs)}
    \cup {CategoryRuleRow("Document Type", "", <<>>, t, p, TRUE, c) :
        p \in Priorities, t \in DOMAIN ts, c \in Links(cs)}

\* a document, the categories and rules, and the rules applied to it
NextApply ==
    \/ \E n \in {"A B", "C"} :
          /\ n \notin DOMAIN categories
          /\ SaveCategory(n, NoCode, NoLink)
    \/ \E n \in TypeNames, c \in TypeCodes : create_document_type(n, c)
    \/ \E t \in Titles, c \in Links(categories), dt \in Links(doctypes) :
          InsertDocument("d1", TitledDocRow("ID1", t, c, dt), TRUE)
    \/ \E n \in ApplyRuleNames, r \in ApplyRuleRows(categories, doctypes) :
          InsertRule(n, r)
    \/ \E n \in ApplyRuleNames :
          create_rule(n, RuleRow("Keyword", "invoice", <<>>, NoLink))
    \/ \E n \in ApplyRuleNames : DeleteRule(n)
    \/ \E o \in RuleOrders(rules) : apply_rules_to_document("d1", o, TRUE)

SpecApply == Init /\ [][NextApply]_vars

\* the positions of `order` whose rule matches the document d
MatchingAt(rs, order, d) ==
    {i \in 1..Len(order) : RuleMatches(rs[order[i]], d)}

\* C12: apply_rules_to_document is first-match by priority: the first
\* active rule, in ascending priority order, that matches the document
\* decides the outcome, no later rule changes the document's category, and
\* status 'no_match' is returned only when no active rule matches.
C12_FirstMatchDecides ==
    [][(/\ last'.op = "apply_rules_to_document"
        /\ last'.target \in DOMAIN docs)
       => LET d == docs[last'.target]
              M == MatchingAt(rules, last'.value, d)
          IN IF M = {}
             THEN last'.status = "no_match" /\ docs' = docs
             ELSE LET f == CHOOSE i \in M : \A j \in M : i <= j
                      r == rules[last'.value[f]]
                  IN /\ last'.status # "no_match"
                     /\ docs'[last'.target].category
                           \in {d.category, RuleCategory(r, d)}]_vars

\* documents and the whitelisted functions of the document module
NextWhitelisted ==
    \/ \E n \in DocNames, id \in DocumentIds, f \in UploadUrls,
          l \in AccessLevels, ok \in BOOLEAN :
          InsertDocument(n, DocRow(id, f, l, "Not Encrypted",
                                   NoLink, NoLink, NoLink), ok)
    \/ \E n \in DocNames, ok \in BOOLEAN : whitelisted_encrypt_document(n, ok)
    \/ \E p \in DocNames, f \in VersionUrls, ok \in BOOLEAN :
          create_new_version(p, f, ok)

SpecWhitelisted == Init /\ [][NextWhitelisted]_vars

\* C13: every whitelisted function follows the uniform error pattern: when
\* its body raises an exception the function does not let it out but
\* returns a dictionary with status 'error' and the exception text, so no
\* call of a whitelisted function ends with an exception.
C13_NoExceptionLeaves ==
    last.op \in {"insert_document", "create_new_version", "encrypt_document"}
        => last.status # "raised"

\* the audit trail over the years: entries made by callers and by the
\* module, and the clean-up of the retention policy
NextAudit ==
    \/ \E a \in AuditActions, d \in {"d1"}, f \in BOOLEAN :
          InsertAuditTrail(a, d, f)
    \/ \E n \in TypeNames, c \in TypeCodes :
          BagCardinality(audit) < MaxEntries /\ create_document_type(n, c)
    \/ \E n \in TypeNames :
          BagCardinality(audit) < MaxEntries /\ DeleteDocumentType(n)
    \/ cleanup_old_audit_entries
    \/ \E j \in DayJumps : Tick(j)

SpecAudit == Init /\ [][NextAudit]_vars

\* the rows of which the step removes a copy
RemovedRows == {r \in BagToSet(audit) : CopiesIn(r, audit') < CopiesIn(r, audit)}

\* the rows of which the step adds a copy
InsertedRows ==
    {r \in BagToSet(audit') : CopiesIn(r, audit') > CopiesIn(r, audit)}

\* C14 as stated: the audit trail is append-only, no operation modifies or
\* removes a row once it is inserted, so the rows only grow.
C14_AppendOnly == [][RemovedRows = {}]_vars

\* C14 amended: audit rows are never modified, and the only operation that
\* removes rows is cleanup_old_audit_entries, which removes exactly the
\* rows whose retention_until is before the current date; every other
\* operation only adds rows.
C14_RemovedOnlyByCleanup ==
    [][/\ RemovedRows # {} => last'.op = "cleanup_old_audit_entries"
       /\ (last'.op = "cleanup_old_audit_entries" /\ today' = today)
            => /\ InsertedRows = {}
               /\ \A r \in BagToSet(audit) :
                     CopiesIn(r, audit')
                       = IF r.retention_until < today THEN 0
                         ELSE CopiesIn(r, audit)]_vars

\* the clean-up removed an expired row and kept one that is not expired
C14_Witness ==
    /\ last.op = "cleanup_old_audit_entries"
    /\ last.value > 0
    /\ audit # EmptyBag
    /\ \E r \in BagToSet(audit) : r.action = "Document Accessed"

\* C15: retention_until of every audit row that is saved is the date of the
\* save plus 365 days for 'Document Accessed' and plus 2555 days for every
\* other action, in the table or not.
C15_RetentionUntil ==
    [][\A r \in InsertedRows :
          r.retention_until
            = today + (IF r.action = "Document Accessed" THEN 365
                       ELSE 2555)]_vars

\* a 'Document Accessed' row saved on a later day next to rows of a table
\* action and of an action outside the table
C15_Witness ==
    /\ \E r \in BagToSet(audit) :
          r.action = "Document Accessed" /\ r.retention_until = 366 + 365
    /\ \E r \in BagToSet(audit) :
          r.action = "Custom" /\ r.retention_until = 2555
    /\ \E r \in BagToSet(audit) : r.action = "Version Created"

\* C16: compliance_flag of every saved audit row is true if and only if the
\* row's action is one of the eleven names of the allow-list, whatever
\* value the caller supplied.
C16_ComplianceFlag ==
    LET eleven == {"Document Created", "Document Updated", "Document Deleted",
                   "Document Downloaded", "Document Shared", "Access Granted",
                   "Access Revoked", "Encryption Applied",
                   "Decryption Applied", "Compliance Check",
                   "Security Violation"}
    IN /\ Cardinality(eleven) = 11
       /\ \A r \in BagToSet(audit) : r.compliance_flag = (r.action \in eleven)

\* a row outside the allow-list was supplied with the flag set, next to a
\* row of the allow-list
C16_Witness ==
    /\ last.op = "create_audit_entry"
    /\ last.status = "success"
    /\ last.value.action = "Custom"
    /\ last.value.supplied
    /\ \E r \in BagToSet(audit) : r.action = "Custom" /\ ~ r.compliance_flag
    /\ \E r \in BagToSet(audit) :
          r.action = "Document Shared" /\ r.compliance_flag

\* C17: every domain mutation is audited: each successful create, update
\* and delete of a document, category, subcategory or document type inserts
\* at least one Archive Audit Trail row.
C17_EveryMutationAudited ==
    [][(/\ last'.status = "success"
        /\ last'.op \in {"insert_document", "save_document", "save_category",
                         "delete_category", "create_subcategory",
                         "delete_subcategory", "create_document_type",
                         "delete_document_type"})
       => BagCardinality(audit') > BagCardinality(audit)]_vars

\* one document of access level Internal, uploaded before the requests
\* arrive, and two create_new_version requests whose steps interleave
NextConcurrent ==
    \/ \E f \in {"", "f1"} :
          requests = NoRequests /\
          InsertDocument("d1", DocRow("ID1", f, "Internal", "Not Encrypted",
                                      NoLink, NoLink, NoLink), TRUE)
    \/ \E q \in RequestIds, p \in DocNames, f \in Files \cup {"gone"} :
          StartRequest(q, p, f)
    \/ \E q \in RequestIds : ReadLastVersion(q)
    \/ \E q \in RequestIds : ValidateVersionNumber(q)
    \/ \E q \in RequestIds : UpdateOtherVersions(q)
    \/ \E q \in RequestIds : InsertVersion(q)
    \/ \E q \in RequestIds : GetParent(q)
    \/ \E q \in RequestIds : SaveParent(q)

SpecConcurrent == Init /\ [][NextConcurrent]_vars

AllDone == \A q \in DOMAIN requests : requests[q].pc = "done"

Overlapped == \E q \in DOMAIN requests : requests[q].overlapped

TwoCurrent(p) == Cardinality(CurrentVersions(p)) >= 2

\* the document's file_attachment is not the file_url of a version that is
\* flagged current
PointerMismatch(p) ==
    /\ p \in DOMAIN docs
    /\ \E i \in CurrentVersions(p) :
          versions[i].file_url # docs[p].file_attachment

\* C18: create_new_version calls that run concurrently on one document
\* can end with two versions flagged current, or with a file_attachment
\* that is not the file_url of the version flagged current; calls that run
\* one after the other cannot, so the flag update and the pointer update
\* are unsafe only under interleaving.
C18_UnsafeOnlyWhenInterleaved ==
    \A p \in DocNames :
        (AllDone /\ (TwoCurrent(p) \/ PointerMismatch(p))) => Overlapped

\* both requests returned success and left two current versions of d1
C18_Witness ==
    /\ DOMAIN requests = RequestIds
    /\ \A q \in RequestIds :
          /\ requests[q].status = "success"
          /\ requests[q].parent_document = "d1"
    /\ TwoCurrent("d1")

\* both requests returned success, one version is current and the
\* document points to the file of the other
C18_WitnessPointer ==
    /\ DOMAIN requests = RequestIds
    /\ \A q \in RequestIds : requests[q].status = "success"
    /\ Cardinality(CurrentVersions("d1")) = 1
    /\ PointerMismatch("d1")

SameNumber(p) ==
    \E i, j \in 1..Len(versions) :
        /\ i # j
        /\ versions[i].parent = p /\ versions[j].parent = p
        /\ versions[i].version_number = versions[j].version_number

\* C19: two create_new_version calls that run concurrently on one document
\* can both read the same maximum, both pass validate_version_number and
\* both insert, leaving two rows of the parent with one version_number;
\* this happens only when the calls overlap, and a call whose
\* validate_version_number runs after the other's insert is refused and
\* inserts nothing.
C19_SameNumberOnlyWhenInterleaved ==
    /\ [](\A p \in DocNames : SameNumber(p) => Overlapped)
    /\ [][\A q \in DOMAIN requests :
            (/\ requests[q].pc = "validate_version_number"
             /\ requests'[q].pc # "validate_version_number"
             /\ \E i \in 1..Len(versions) :
                   /\ versions[i].parent = requests[q].parent_document
                   /\ versions[i].version_number
                         = requests[q].version_number)
            => (/\ requests'[q].pc = "done"
                /\ requests'[q].status = "error"
                /\ versions' = versions)]_vars

\* both requests read the same maximum, passed validation and inserted
C19_Witness ==
    /\ DOMAIN requests = RequestIds
    /\ \A q \in RequestIds :
          /\ requests[q].status = "success"
          /\ requests[q].parent_document = "d1"
    /\ requests["q1"].version_number = requests["q2"].version_number
    /\ SameNumber("d1")

\* C20: after create_new_version(parent, file_url) has returned status
\* 'success' the parent's file_attachment is file_url, the file_url of the
\* version flagged current, for every access_level and encryption_status
\* of the parent.
C20_PointerIsFileUrl ==
    (last.op = "create_new_version" /\ last.status = "success")
        => LET v == versions[Len(versions)]
           IN /\ v.parent = last.target
              /\ v.is_current_version = 1
              /\ docs[last.target].file_attachment = v.file_url

\* the documents a bulk upload or a single upload brings
UploadRows ==
    {[TitledDocRow(id, t, NoLink, NoLink)
        EXCEPT !.file_attachment = f, !.access_level = l] :
        id \in DocumentIds, t \in {"Invoice"}, f \in {"", "f1"},
        l \in AccessLevels}

\* the lists of at most two uploads of new documents
UploadLists ==
    {<<>>}
    \cup {<<[name |-> n, doc |-> d]>> : n \in DocNames, d \in UploadRows}
    \cup {<<[name |-> "d1", doc |-> d], [name |-> "d2", doc |-> e]>> :
            d \in UploadRows, e \in UploadRows}

\* uploads in bulk, one category, one rule, and the rules applied in bulk
NextBulk ==
    \/ \E items \in UploadLists, ok \in BOOLEAN :
          bulk_upload_documents(items, ok)
    \/ /\ "C" \notin DOMAIN categories
       /\ SaveCategory("C", NoCode, NoLink)
    \/ \E c \in Links(categories) :
          InsertRule("r1", CategoryRuleRow("Keyword", "invoice", <<>>, NoLink,
                                           1, TRUE, c))
    \/ DeleteRule("r1")
    \/ \E o \in RuleOrders(rules) : bulk_apply_rules(o, TRUE)

SpecBulk == Init /\ [][NextBulk]_vars

\* C21: the bulk loops count every item exactly once: bulk_upload_documents
\* returns success + failed = total and bulk_apply_rules returns
\* categorized + no_match + errors = total_documents, whatever the
\* outcomes of the items are.
C21_BulkCountsAddUp ==
    /\ last.op = "bulk_upload_documents"
         => last.value.success + last.value.failed = last.value.total
    /\ last.op = "bulk_apply_rules"
         => last.value.categorized + last.value.no_match + last.value.errors
              = last.value.total_documents

\* ---- the walks over category tables whose parent pointers were written
\* without validate_parent_category: every parent is a stored row, cycles
\* included
LinkedCategories ==
    {cs \in UNION {[S -> {CategoryRow(<<"K">>, p) :
                              p \in CategoryNames \cup {NoLink}}] :
                      S \in SUBSET CategoryNames} :
        \A n \in DOMAIN cs : cs[n].parent_category \in Links(cs)}

InitWalk ==
    /\ docs = EmptyRows
    /\ versions = EmptyRows
    /\ categories \in LinkedCategories
    /\ subcategories = EmptyRows
    /\ doctypes = EmptyRows
    /\ relationships = EmptyBag
    /\ rules = EmptyRows
    /\ audit = EmptyBag
    /\ last = Result("none", "none", NoLink, 0, "")
    /\ today = 0
    /\ requests = NoRequests
    /\ walk = NoWalk

NextWalk ==
    \/ \E kind \in {"is_child_of", "get_category_hierarchy"},
          category \in CategoryNames, parent_name \in CategoryNames :
          StartWalk(kind, category, parent_name)
    \/ IsChildOfCall
    \/ GetCategoryHierarchyLoop

\* a frame or a loop turn that can run does run
SpecWalk ==
    /\ InitWalk /\ [][NextWalk]_vars
    /\ WF_vars(IsChildOfCall) /\ WF_vars(GetCategoryHierarchyLoop)

\* the walk from n comes to a record that is its own ancestor
EntersCycle(cs, n) ==
    \E m \in {n} \cup Ancestors(cs, n) : m \in Ancestors(cs, m)

\* the list is the parent chain of the category, root first
RootFirstChain(cs, hierarchy, category) ==
    /\ hierarchy # <<>>
    /\ hierarchy[Len(hierarchy)] = category
    /\ cs[hierarchy[1]].parent_category = NoLink
    /\ \A i \in 1..(Len(hierarchy) - 1) :
          cs[hierarchy[i + 1]].parent_category = hierarchy[i]

WalkEnds ==
    (walk.status = "walking" /\ ~EntersCycle(categories, walk.start))
        ~> (walk.status = "returned")

HierarchyIsChain ==
    (walk.status = "returned" /\ walk.kind = "get_category_hierarchy")
        => RootFirstChain(categories, walk.hierarchy, walk.start)

\* C22 as stated: is_child_of and get_category_hierarchy end on an acyclic
\* parent chain, get_category_hierarchy with the chain root first and the
\* category last, and no walk that enters a cycle ever returns
C22_CycleNeverReturns ==
    /\ WalkEnds
    /\ [](HierarchyIsChain)
    /\ [](EntersCycle(categories, walk.start) => walk.status # "returned")

\* C22 amended: is_child_of and get_category_hierarchy end on an acyclic
\* parent chain, get_category_hierarchy with the chain root first and the
\* category last; a walk that enters a cycle returns in one case only,
\* is_child_of with True when parent_name is one of the parents it meets
C22_CycleReturnsOnlyFound ==
    /\ WalkEnds
    /\ [](HierarchyIsChain)
    /\ [](EntersCycle(categories, walk.start) /\ walk.status = "returned"
            => /\ walk.kind = "is_child_of"
               /\ walk.result = TRUE
               /\ walk.parent_name \in Ancestors(categories, walk.start))

\* a walk over a chain of three records has returned, and a walk on a cycle
\* has run to the cap without returning
C22_Witness ==
    /\ walk.kind = "get_category_hierarchy"
    /\ \/ walk.status = "returned" /\ Len(walk.hierarchy) = 3
       \/ /\ EntersCycle(categories, walk.start)
          /\ walk.status = "walking" /\ walk.depth = MaxWalk

VersionsOf(p) == {i \in 1..Len(versions) : versions[i].parent = p}

\* C23: every Archive Document that has at least one version row has
\* exactly one version with is_current_version = 1, right after its insert
\* and after every create_new_version and restore_version run one at a time.
C23_ExactlyOneCurrent ==
    \A p \in DOMAIN docs :
        VersionsOf(p) # {} => Cardinality(CurrentVersions(p)) = 1

\* C24: a create_new_version that returns status 'error' has added no
\* version row, changed no is_current_version flag and left the parent's
\* file_attachment as it was.
C24_ErrorChangesNothing ==
    [][last'.op = "create_new_version" /\ last'.status = "error"
         => versions' = versions /\ docs' = docs]_vars

\* relationships that are added through the document's method as well
NextRelated ==
    \/ NextRelations
    \/ \E d \in DocNames, r \in DocNames, t \in {"Contains", "Related To"} :
          add_related_document(d, r, t)

SpecRelated == Init /\ [][NextRelated]_vars

\* C25: an add_relationship that returns status 'error' leaves the
\* Archive Related Document rows as they were before the call, so that no
\* forward edge is left stored without its reverse edge.
C25_ErrorKeepsRows ==
    [][last'.op = "add_relationship" /\ last'.status = "error"
         => relationships' = relationships]_vars

\* the edge B->A of the paired type is stored whenever A->B is
Symmetric ==
    \A e \in BagToSet(relationships) :
        e.relationship_type \in DOMAIN reverse_relationships
            => BagIn(Edge(e.related_document_id, e.parent,
                          reverse_relationships[e.relationship_type]),
                     relationships)

\* C26: from an empty relationship set, after any sequence of
\* add_relationship and remove_relationship calls run one at a time, an edge
\* A->B of a paired type is stored if and only if the edge B->A of the
\* other type of the pair is, no edge relates a document to itself and no
\* (parent, related_document_id, relationship_type) is stored twice.
C26_SymmetricWellFormed ==
    /\ Symmetric
    /\ \A e \in BagToSet(relationships) :
          /\ e.parent # e.related_document_id
          /\ CopiesIn(e, relationships) = 1

\* a pair of edges is stored after another pair was added and removed
C26_Witness ==
    /\ last.op = "add_relationship" /\ last.status = "success"
    /\ last.value.type \in DOMAIN reverse_relationships
    /\ BagCardinality(relationships) = 2
    /\ AuditCount(audit, "Relationship Relationship Deleted") = 2

\* one document that is uploaded, given new versions, encrypted and
\* decrypted
NextCrypt ==
    \/ \E f \in UploadUrls, l \in AccessLevels, ok \in BOOLEAN :
          InsertDocument("d1", DocRow("ID1", f, l, "Not Encrypted",
                                      NoLink, NoLink, NoLink), ok)
    \/ \E p \in DocNames, f \in VersionUrls, ok \in BOOLEAN :
          create_new_version(p, f, ok)
    \/ \E n \in DocNames, ok \in BOOLEAN : whitelisted_encrypt_document(n, ok)
    \/ \E n \in DocNames, dok, ok \in BOOLEAN :
          whitelisted_decrypt_document(n, dok, ok)

SpecCrypt == Init /\ [][NextCrypt]_vars

\* C27: a whitelisted decrypt_document that returns status 'success' for a
\* document with a file attachment and encryption_status 'Encrypted', of
\* any access_level, leaves the stored encryption_status 'Not Encrypted'.
C27_DecryptUndoesEncryption ==
    [][/\ last'.op = "decrypt_document" /\ last'.status = "success"
       /\ docs[last'.target].file_attachment # ""
       /\ docs[last'.target].encryption_status = "Encrypted"
       => docs'[last'.target].encryption_status = "Not Encrypted"]_vars

\* C28: the whitelisted encrypt_document returns status 'success' with the
\* message 'Document encrypted successfully' only if the stored
\* encryption_status is 'Encrypted' after the call; it does not return
\* success when encryption fails or the document has no file attachment.
C28_SuccessMeansEncrypted ==
    [][last'.op = "encrypt_document" /\ last'.status = "success"
         => /\ last'.message = "Document encrypted successfully"
            /\ docs'[last'.target].encryption_status = "Encrypted"]_vars

\* C29: after any sequence of category, subcategory and document
\* operations every Archive Subcategory's parent_category, every Archive
\* Category's parent_category and every Archive Document's category is the
\* name of a stored category (or is empty).
C29_NoDanglingCategory ==
    /\ \A n \in DOMAIN subcategories :
          subcategories[n].parent_category \in Links(categories)
    /\ \A n \in DOMAIN categories :
          categories[n].parent_category \in Links(categories)
    /\ \A d \in DOMAIN docs : docs[d].category \in Links(categories)

\* document types that are saved with file requirements and asked about
\* file extensions
NextFileTypes ==
    \/ \E n \in TypeNames, c \in TypeCodes, a \in AllowedFileTypes,
          m \in MaxFileSizes : SaveDocumentType(n, c, a, m)
    \/ \E n \in TypeNames, e \in FileExtensions : ValidateFileType(n, e)

SpecFileTypes == Init /\ [][NextFileTypes]_vars

\* a text without its leading dot, in lower case
WithoutLeadingDot(s) ==
    LowerText(IF s # <<>> /\ Head(s) = "." THEN Tail(s) ELSE s)

\* the extension is one of the entries of the comma-separated list
Listed(allowed, ext) ==
    \E i \in 1..Len(split(allowed, ",")) :
        WithoutLeadingDot(strip(split(allowed, ",")[i]))
            = WithoutLeadingDot(ext)

\* C30: for every stored allowed_file_types (one that
\* validate_file_requirements accepted), validate_file_type(ext) is true
\* exactly when ext, without regard to letter case and leading dot, is one
\* of the listed entries, compared the same way, and is true for every ext
\* when the list is empty.
C30_FileTypeListed ==
    last.op = "validate_file_type" =>
        LET allowed == doctypes[last.target].allowed_file_types
        IN last.value.result
             = (allowed = <<>> \/ Listed(allowed, last.value.file_extension))

====
